---------------------------- MODULE Spec2Model ----------------------------
(***************************************************************************)
(* BRLibToHelp: the declaration parsers (src/parser.py), the rendered form *)
(* of the parsed types (src/datatypes.py) and the cross-reference resolver *)
(* (src/libraryToChm.py), modelled on texts that are sequences of          *)
(* one-character strings.  Every regular expression of the source is       *)
(* written as a pattern value and run by a backtracking matcher that       *)
(* follows the priority order of Python's re module.                       *)
(***************************************************************************)
EXTENDS Integers, Sequences, FiniteSets, TLC

VARIABLES
    pc,            \* position of the modelled call
    text,          \* link_constants_in_text: the text argument
    constants,     \* library.constants, the names in declaration order
    replacements,  \* link_constants_in_text: accepted (start, end, name)
    result,        \* link_constants_in_text: the returned text
    pass,          \* how many times the resolver has been applied
    shape,         \* what the type expression under test was assembled from
    type_str,      \* parse_type: the type_str argument
    parsed,        \* parse_type: the returned Type
    rendered,      \* str(parsed)
    reparsed,      \* parse_type(str(parsed))
    typ_shape,     \* what the .typ file was assembled from
    typ_content,   \* parse_typ_file: the content of the .typ file
    structures,    \* library.structures
    enumerations,  \* library.enumerations
    rows,          \* generate_structure_file: the member rows, per structure
    fun_units,     \* what the .fun file was assembled from
    fun_content,   \* parse_fun_file: the content of the .fun file
    fun_parser,    \* LibraryDeclarationFileParser.library
    library,       \* process(): library
    process_result, \* process(): result
    sect_shape,    \* what the section body was assembled from
    sect_content,  \* parse_variable_section: the section argument
    sect_result,   \* parse_variable_section: the returned list, or raised
    unit_shape,    \* what the declaration unit was assembled from
    unit_content,  \* the text of the declaration unit
    unit_result,   \* what the unit's own parser returned, or raised
    unit_blocks,   \* parse_fun_file: what each block was parsed as
    block_shape,   \* what the TYPE block was assembled from
    block_content, \* extract_type_definitions_improved: the type_block
    block_result,  \* extract_type_definitions_improved: the returned list
    enum_shape,    \* what the enumeration definition was assembled from
    enum_content,  \* EnumerationParser.parse: the content argument
    enum_result,   \* EnumerationParser.parse: the Enumeration, or raised
    env,           \* the arguments of a run and the files of the library
    build,         \* process() / start(): the locals of the call
    exit_code      \* main(): the returned exit code

linkVars == <<text, constants, replacements, result, pass>>
typeVars == <<shape, type_str, parsed, rendered, reparsed>>
typVars == <<typ_shape, typ_content, structures, enumerations, rows>>
funVars == <<fun_units, fun_content, fun_parser, library, process_result>>
sectVars == <<sect_shape, sect_content, sect_result>>
unitVars == <<unit_shape, unit_content, unit_result, unit_blocks>>
extVars == <<block_shape, block_content, block_result>>
enumVars == <<enum_shape, enum_content, enum_result>>
procVars == <<env, build, exit_code>>
lateVars == <<enumVars, procVars>>
declVars == <<sectVars, unitVars, extVars, lateVars>>
vars == <<pc, linkVars, typeVars, typVars, funVars, declVars>>

\* the variables of a part that a specification leaves aside
LinkIdle ==
    /\ text = <<>> /\ constants = <<>> /\ replacements = <<>>
    /\ result = <<>> /\ pass = 0
TypeIdle ==
    /\ shape = <<>> /\ type_str = <<>> /\ parsed = <<>>
    /\ rendered = <<>> /\ reparsed = <<>>
TypIdle ==
    /\ typ_shape = <<>> /\ typ_content = <<>> /\ structures = <<>>
    /\ enumerations = <<>> /\ rows = <<>>
FunIdle ==
    /\ fun_units = <<>> /\ fun_content = <<>> /\ fun_parser = <<>>
    /\ library = <<>> /\ process_result = <<>>
SectIdle == sect_shape = <<>> /\ sect_content = <<>> /\ sect_result = <<>>
UnitIdle ==
    /\ unit_shape = <<>> /\ unit_content = <<>> /\ unit_result = <<>>
    /\ unit_blocks = <<>>
ExtIdle == block_shape = <<>> /\ block_content = <<>> /\ block_result = <<>>
EnumIdle == enum_shape = <<>> /\ enum_content = <<>> /\ enum_result = <<>>
ProcIdle == env = <<>> /\ build = <<>> /\ exit_code = <<>>
LateIdle == EnumIdle /\ ProcIdle
DeclIdle == SectIdle /\ UnitIdle /\ ExtIdle /\ LateIdle

----------------------------------------------------------------------------
(* Characters and texts *)

Upper == {"A","B","C","D","E","F","G","H","I","J","K","L","M",
          "N","O","P","Q","R","S","T","U","V","W","X","Y","Z"}
Lower == {"a","b","c","d","e","f","g","h","i","j","k","l","m",
          "n","o","p","q","r","s","t","u","v","w","x","y","z"}
Digit == {"0","1","2","3","4","5","6","7","8","9"}

\* \w of the re module
WordChars == Upper \cup Lower \cup Digit \cup {"_"}

\* \s of the re module, and the characters str.strip() removes
SpaceChars == {" ", "\t", "\n", "\r"}

\* F applied to value: the value is computed once, under the name F gives it
Bind(value, F(_)) == F(value)

RECURSIVE Concat(_)
\* the texts of a sequence joined end to end (halving keeps the evaluation
\* shallow on long texts)
Concat(parts) ==
    IF parts = <<>> THEN <<>>
    ELSE IF Len(parts) = 1 THEN parts[1]
    ELSE LET h == Len(parts) \div 2
         IN Concat(SubSeq(parts, 1, h)) \o Concat(SubSeq(parts, h + 1, Len(parts)))

\* text[a:b] with 0-based, end-exclusive Python indices
Slice(s, a, b) == SubSeq(s, a + 1, b)

\* s.startswith(p) at offset i (0-based)
StartsWithAt(s, p, i) ==
    /\ i + Len(p) <= Len(s)
    /\ \A k \in 1..Len(p) : s[i + k] = p[k]

\* p in s
Contains(s, p) == \E i \in 0..Len(s) : StartsWithAt(s, p, i)

\* s with its leading white space removed
LStrip(s) ==
    LET keep == {i \in 1..Len(s) : s[i] \notin SpaceChars}
    IN IF keep = {} THEN <<>>
       ELSE SubSeq(s, CHOOSE i \in keep : \A k \in keep : i <= k, Len(s))

\* s with its trailing white space removed
RStrip(s) ==
    LET keep == {i \in 1..Len(s) : s[i] \notin SpaceChars}
    IN IF keep = {} THEN <<>>
       ELSE SubSeq(s, 1, CHOOSE i \in keep : \A k \in keep : i >= k)

\* str.strip()
Strip(s) == LStrip(RStrip(s))

UpperOf(c) ==
    CASE c = "a" -> "A" [] c = "b" -> "B" [] c = "c" -> "C" [] c = "d" -> "D"
      [] c = "e" -> "E" [] c = "f" -> "F" [] c = "g" -> "G" [] c = "h" -> "H"
      [] c = "i" -> "I" [] c = "j" -> "J" [] c = "k" -> "K" [] c = "l" -> "L"
      [] c = "m" -> "M" [] c = "n" -> "N" [] c = "o" -> "O" [] c = "p" -> "P"
      [] c = "q" -> "Q" [] c = "r" -> "R" [] c = "s" -> "S" [] c = "t" -> "T"
      [] c = "u" -> "U" [] c = "v" -> "V" [] c = "w" -> "W" [] c = "x" -> "X"
      [] c = "y" -> "Y" [] c = "z" -> "Z" [] OTHER -> c

\* str.upper()
ToUpper(s) == [i \in 1..Len(s) |-> UpperOf(s[i])]

\* s.startswith(p) at offset i when letter case is ignored
StartsWithAtNoCase(s, p, i) ==
    /\ i + Len(p) <= Len(s)
    /\ \A k \in 1..Len(p) : UpperOf(s[i + k]) = UpperOf(p[k])

\* str.isdigit(): non-empty and digits only
IsDigit(s) == s # <<>> /\ \A i \in 1..Len(s) : s[i] \in Digit

DigitValue(c) ==
    CASE c = "0" -> 0 [] c = "1" -> 1 [] c = "2" -> 2 [] c = "3" -> 3
      [] c = "4" -> 4 [] c = "5" -> 5 [] c = "6" -> 6 [] c = "7" -> 7
      [] c = "8" -> 8 [] c = "9" -> 9

DigitChar(n) ==
    CASE n = 0 -> "0" [] n = 1 -> "1" [] n = 2 -> "2" [] n = 3 -> "3"
      [] n = 4 -> "4" [] n = 5 -> "5" [] n = 6 -> "6" [] n = 7 -> "7"
      [] n = 8 -> "8" [] n = 9 -> "9"

RECURSIVE ParseInt(_)
\* int(s) for a digits-only text
ParseInt(s) ==
    IF s = <<>> THEN 0
    ELSE 10 * ParseInt(SubSeq(s, 1, Len(s) - 1)) + DigitValue(s[Len(s)])

RECURSIVE IntToText(_)
\* str(n) for n >= 0
IntToText(n) ==
    IF n < 10 THEN <<DigitChar(n)>>
    ELSE IntToText(n \div 10) \o <<DigitChar(n % 10)>>

----------------------------------------------------------------------------
(* Patterns: a pattern is a sequence of nodes, matched in order *)

Node(op, cs, re, re2, g, greedy, min) ==
    [op |-> op, cs |-> cs, re |-> re, re2 |-> re2, g |-> g,
     greedy |-> greedy, min |-> min]

\* one character of the set cs
In(cs) == Node("in", cs, <<>>, <<>>, 0, TRUE, 0)
\* one character outside the set cs
NotIn(cs) == Node("notin", cs, <<>>, <<>>, 0, TRUE, 0)
\* the literal text p
Lit(p) == <<Node("lit", {}, p, <<>>, 0, TRUE, 0)>>
\* the literal text p under re.IGNORECASE
ILit(p) == <<Node("ilit", {}, p, <<>>, 0, TRUE, 0)>>
\* x*, x+ and their lazy forms, x one character of cs (or outside it)
Star(cs) == Node("rep", cs, <<>>, <<>>, 0, TRUE, 0)
Plus(cs) == Node("rep", cs, <<>>, <<>>, 0, TRUE, 1)
LazyPlus(cs) == Node("rep", cs, <<>>, <<>>, 0, FALSE, 1)
\* .*? under re.DOTALL
LazyAny == Node("nrep", {}, <<>>, <<>>, 0, FALSE, 0)
\* .*? without re.DOTALL
LazyAnyInLine == Node("nrep", {"\n"}, <<>>, <<>>, 0, FALSE, 0)
\* (re) as capture group g
Group(g, re) == Node("grp", {}, re, <<>>, g, TRUE, 0)
\* (?:re)?
Opt(re) == Node("opt", {}, re, <<>>, 0, TRUE, 0)
\* (?:re|re2)
Alt(re, re2) == Node("alt", {}, re, re2, 0, TRUE, 0)
\* \b
WordBoundary == Node("wb", {}, <<>>, <<>>, 0, TRUE, 0)
\* the end of capture group g, which began at offset from
CloseGroup(g, from) == Node("close", {}, <<>>, <<>>, g, TRUE, from)

\* \b holds between position i and i+1 (0-based offset i)
WordBoundaryAt(s, i) ==
    LET before == i > 0 /\ s[i] \in WordChars
        after == i < Len(s) /\ s[i + 1] \in WordChars
    IN before # after

NoGroup == [set |-> FALSE, from |-> 0, to |-> 0]
NoGroups(ng) == [g \in 1..ng |-> NoGroup]
NoMatch == [ok |-> FALSE, start |-> 0, end |-> 0, caps |-> <<>>]

\* the offset where the run of characters of cs (inside = TRUE) or outside
\* cs (inside = FALSE) that starts at offset i ends
RunEnd(s, i, cs, inside) ==
    LET stops == {k \in (i + 1)..Len(s) : (s[k] \in cs) # inside}
    IN IF stops = {} THEN Len(s)
       ELSE (CHOOSE k \in stops : \A j \in stops : k <= j) - 1

RECURSIVE MatchHere(_, _, _, _)
\* the first way, in the order the re module tries them, to match the
\* pattern re against s from offset i; caps are the groups captured so far.
\* A repetition of one character class tries its counts from the largest
\* (greedy) or from the smallest (lazy) and keeps the first count with
\* which the rest of the pattern matches.
MatchHere(re, s, i, caps) ==
    CASE re = <<>> -> [ok |-> TRUE, start |-> 0, end |-> i, caps |-> caps]
      [] re # <<>> /\ re[1].op = "lit" ->
           IF StartsWithAt(s, re[1].re, i)
           THEN MatchHere(Tail(re), s, i + Len(re[1].re), caps) ELSE NoMatch
      [] re # <<>> /\ re[1].op = "ilit" ->
           IF StartsWithAtNoCase(s, re[1].re, i)
           THEN MatchHere(Tail(re), s, i + Len(re[1].re), caps) ELSE NoMatch
      [] re # <<>> /\ re[1].op \in {"in", "notin"} ->
           IF i < Len(s) /\ ((s[i + 1] \in re[1].cs) = (re[1].op = "in"))
           THEN MatchHere(Tail(re), s, i + 1, caps) ELSE NoMatch
      [] re # <<>> /\ re[1].op \in {"rep", "nrep"} ->
           LET last == RunEnd(s, i, re[1].cs, re[1].op = "rep")
               best == IF re[1].greedy THEN last ELSE i + re[1].min
               try == IF best >= i + re[1].min /\ best <= last
                      THEN MatchHere(Tail(re), s, best, caps) ELSE NoMatch
               ends == {e \in (i + re[1].min)..last :
                           e # best /\ MatchHere(Tail(re), s, e, caps).ok}
           IN IF try.ok THEN try
              ELSE IF ends = {} THEN NoMatch
              ELSE MatchHere(Tail(re), s,
                      IF re[1].greedy
                      THEN CHOOSE e \in ends : \A k \in ends : e >= k
                      ELSE CHOOSE e \in ends : \A k \in ends : e <= k,
                      caps)
      [] re # <<>> /\ re[1].op = "grp" ->
           MatchHere(re[1].re \o <<CloseGroup(re[1].g, i)>> \o Tail(re),
                     s, i, caps)
      [] re # <<>> /\ re[1].op = "close" ->
           MatchHere(Tail(re), s, i,
                     [caps EXCEPT ![re[1].g] = [set |-> TRUE,
                                                from |-> re[1].min,
                                                to |-> i]])
      [] re # <<>> /\ re[1].op = "opt" ->
           LET with == MatchHere(re[1].re \o Tail(re), s, i, caps)
           IN IF with.ok THEN with ELSE MatchHere(Tail(re), s, i, caps)
      [] re # <<>> /\ re[1].op = "alt" ->
           LET first == MatchHere(re[1].re \o Tail(re), s, i, caps)
           IN IF first.ok THEN first
              ELSE MatchHere(re[1].re2 \o Tail(re), s, i, caps)
      [] re # <<>> /\ re[1].op = "wb" ->
           IF WordBoundaryAt(s, i) THEN MatchHere(Tail(re), s, i, caps)
           ELSE NoMatch

\* pattern.match(s): a match anchored at the start of s
ReMatch(re, ng, s) == MatchHere(re, s, 0, NoGroups(ng))

\* pattern.search(s, from): the leftmost match starting at from or later
ReSearchFrom(re, ng, s, from) ==
    LET hits == {i \in from..Len(s) : MatchHere(re, s, i, NoGroups(ng)).ok}
    IN IF hits = {} THEN NoMatch
       ELSE LET i == CHOOSE h \in hits : \A k \in hits : h <= k
            IN [MatchHere(re, s, i, NoGroups(ng)) EXCEPT !.start = i]

ReSearch(re, ng, s) == ReSearchFrom(re, ng, s, 0)

RECURSIVE ReFindIterFrom(_, _, _, _)
\* pattern.finditer(s): the successive non-overlapping matches, left to
\* right (no pattern of the program matches the empty text)
ReFindIterFrom(re, ng, s, from) ==
    Bind(ReSearchFrom(re, ng, s, from), LAMBDA m :
       IF ~m.ok THEN <<>>
       ELSE <<m>> \o ReFindIterFrom(re, ng, s,
                                    IF m.end > m.start THEN m.end
                                    ELSE m.end + 1))

ReFindIter(re, ng, s) == ReFindIterFrom(re, ng, s, 0)

\* match.group(g), the empty text standing for None; GroupSet tells them apart
GroupText(m, s, g) ==
    IF m.caps[g].set THEN Slice(s, m.caps[g].from, m.caps[g].to) ELSE <<>>
GroupSet(m, g) == m.caps[g].set

----------------------------------------------------------------------------
(* LibraryDeclarationToChm.link_constants_in_text *)

EscapeChar(c) ==
    CASE c = "&" -> <<"&","a","m","p",";">>
      [] c = "<" -> <<"&","l","t",";">>
      [] c = ">" -> <<"&","g","t",";">>
      [] c = "\"" -> <<"&","q","u","o","t",";">>
      [] c = "'" -> <<"&","#","x","2","7",";">>
      [] OTHER -> <<c>>

\* html.escape(s)
HtmlEscape(s) == Concat([i \in 1..Len(s) |-> EscapeChar(s[i])])

RECURSIVE InsertByLen(_, _)
\* name put behind every element that is at least as long
InsertByLen(sorted, name) ==
    IF sorted = <<>> THEN <<name>>
    ELSE IF Len(Head(sorted)) >= Len(name)
         THEN <<Head(sorted)>> \o InsertByLen(Tail(sorted), name)
         ELSE <<name>> \o sorted

RECURSIVE SortByLenDesc(_)
\* sorted(names, key=len, reverse=True), which keeps equal lengths in order
SortByLenDesc(names) ==
    IF names = <<>> THEN <<>>
    ELSE InsertByLen(SortByLenDesc(SubSeq(names, 1, Len(names) - 1)),
                     names[Len(names)])

\* the constant names, longest first
ConstantNames(consts) == SortByLenDesc(consts)

ConstantPatternUnbounded(const_name) == Lit(const_name)

\* r'\b' + re.escape(const_name) + r'\b'
ConstantPattern(const_name) ==
    <<WordBoundary>> \o Lit(const_name) \o <<WordBoundary>>

OverlapsInside(start, end, reps) ==
    \E k \in 1..Len(reps) : reps[k][1] < start /\ end < reps[k][2]

\* the span start..end shares a position with an accepted replacement
Overlaps(start, end, reps) ==
    \E k \in 1..Len(reps) : ~(end <= reps[k][1] \/ start >= reps[k][2])

RECURSIVE AcceptMatches(_, _, _)
\* the inner loop: each match of one name, accepted unless it overlaps
\* (Len(reps) < 0 never holds: it has the list built up evaluated at each
\* step instead of all at once at the end)
AcceptMatches(ms, const_name, reps) ==
    IF ms = <<>> \/ Len(reps) < 0 THEN reps
    ELSE LET m == Head(ms)
         IN AcceptMatches(Tail(ms), const_name,
                IF Overlaps(m.start, m.end, reps) THEN reps
                ELSE Append(reps, <<m.start, m.end, const_name>>))

RECURSIVE ScanNames(_, _, _)
\* the outer loop over the sorted names
ScanNames(names, txt, reps) ==
    IF names = <<>> \/ Len(reps) < 0 THEN reps
    ELSE ScanNames(Tail(names), txt,
            AcceptMatches(ReFindIter(ConstantPattern(Head(names)), 0, txt),
                          Head(names), reps))

RECURSIVE ScanNamesNaive(_, _, _)
ScanNamesNaive(names, txt, reps) ==
    IF names = <<>> \/ Len(reps) < 0 THEN reps
    ELSE ScanNamesNaive(Tail(names), txt,
            AcceptMatches(ReFindIter(Lit(Head(names)), 0, txt),
                          Head(names), reps))

FindReplacementsNaive(txt, consts) == ScanNamesNaive(consts, txt, <<>>)

\* the replacements list as it stands before it is sorted by position
FindReplacements(txt, consts) == ScanNames(ConstantNames(consts), txt, <<>>)

RECURSIVE InsertByStart(_, _)
InsertByStart(sorted, rep) ==
    IF sorted = <<>> THEN <<rep>>
    ELSE IF Head(sorted)[1] <= rep[1]
         THEN <<Head(sorted)>> \o InsertByStart(Tail(sorted), rep)
         ELSE <<rep>> \o sorted

RECURSIVE SortByStart(_)
\* replacements.sort(key=lambda x: x[0])
SortByStart(reps) ==
    IF reps = <<>> THEN <<>>
    ELSE InsertByStart(SortByStart(SubSeq(reps, 1, Len(reps) - 1)),
                       reps[Len(reps)])

AnchorOpen == <<"<","a"," ","h","r","e","f","=","\"">>
ConstantsPage == <<"D","a","t","a","T","y","p","e","s","/","C","o","n","s",
                   "t","a","n","t","s","/","C","o","n","s","t","a","n","t",
                   "s",".","h","t","m","l">>
AnchorClose == <<"<","/","a",">">>

\* f'<a href="{link}#{html.escape(const_name)}">{html.escape(const_name)}</a>'
ConstantLink(const_name, relative_path) ==
    Concat(<<AnchorOpen, relative_path, ConstantsPage, <<"#">>,
             HtmlEscape(const_name), <<"\"", ">">>, HtmlEscape(const_name),
             AnchorClose>>)

RECURSIVE BuildResult(_, _, _, _)
\* the segments loop and the text after the last replacement
BuildResult(txt, reps, last_pos, relative_path) ==
    IF reps = <<>> THEN HtmlEscape(Slice(txt, last_pos, Len(txt)))
    ELSE LET r == Head(reps)
         IN HtmlEscape(Slice(txt, last_pos, r[1]))
            \o ConstantLink(r[3], relative_path)
            \o BuildResult(txt, Tail(reps), r[2], relative_path)

LinkConstantsInText(txt, consts, relative_path) ==
    IF consts = <<>> THEN HtmlEscape(txt)
    ELSE Bind(FindReplacements(txt, consts), LAMBDA reps :
            IF reps = <<>> THEN HtmlEscape(txt)
            ELSE BuildResult(txt, SortByStart(reps), 0, relative_path))

----------------------------------------------------------------------------
(* The resolver applied to a free-text fragment, and to its own output *)

MaxTextLen == 3
MaxConstants == 2

LinkAlphabet == {"X", "L", "x", " ", "&"}

XLONG == <<"X","L","O","N","G">>

ConstantNameSet == {<<"X">>, <<"L">>, <<"X","L">>, XLONG}

RECURSIVE SeqsUpTo(_, _)
\* the sequences over S of length at most n
SeqsUpTo(S, n) ==
    IF n = 0 THEN {<<>>}
    ELSE LET shorter == SeqsUpTo(S, n - 1)
         IN shorter \cup {Append(q, x) : q \in shorter, x \in S}

LinkTexts ==
    SeqsUpTo(LinkAlphabet, MaxTextLen)
    \cup {XLONG,
          <<"X"," ">> \o XLONG,
          XLONG \o <<" ","X">>,
          <<"[","0",".",".">> \o XLONG \o <<"]">>,
          XLONG \o <<"E","R"," ","x","l","o","n","g"," ">> \o XLONG}

\* the relative path generate_structure_file passes
RelativePath == <<".",".","/",".",".","/">>

LinkInit ==
    /\ pc = "start"
    /\ pass = 0
    /\ text \in LinkTexts
    /\ constants \in SeqsUpTo(ConstantNameSet, MaxConstants)
    /\ replacements = <<>>
    /\ result = <<>>
    /\ TypeIdle /\ TypIdle /\ FunIdle /\ DeclIdle

\* one call of link_constants_in_text(text, relative_path)
Link ==
    /\ pc = "start"
    /\ replacements' = IF constants = <<>> THEN <<>>
                       ELSE FindReplacements(text, constants)
    /\ result' = LinkConstantsInText(text, constants, RelativePath)
    /\ pass' = pass + 1
    /\ pc' = "done"
    /\ UNCHANGED <<text, constants, typeVars, typVars, funVars,
                   declVars>>

\* the returned text handed to the resolver a second time
Relink ==
    /\ pc = "done"
    /\ pass = 1
    /\ text' = result
    /\ pc' = "start"
    /\ UNCHANGED <<constants, replacements, result, pass, typeVars, typVars,
                   funVars, declVars>>

LinkNext == Link \/ Relink

LinkSpec == LinkInit /\ [][LinkNext]_vars

----------------------------------------------------------------------------
(* Properties of the resolver *)

\* const_name stands at offset i of txt with no word character next to it
BoundedOccurrence(txt, const_name, i) ==
    /\ StartsWithAt(txt, const_name, i)
    /\ i = 0 \/ txt[i] \notin WordChars
    /\ i + Len(const_name) = Len(txt)
         \/ txt[i + Len(const_name) + 1] \notin WordChars

ConstantSet == {constants[k] : k \in 1..Len(constants)}

\* the number of offsets of txt at which p stands
CountOccurrences(txt, p) ==
    Cardinality({i \in 0..Len(txt) : StartsWithAt(txt, p, i)})

\* C2: the accepted spans are pairwise disjoint: no position of the text
\* lies in two of them
C2_SpansDisjoint ==
    pc = "done" =>
        \A j, k \in 1..Len(replacements) :
            j # k => \/ replacements[j][2] <= replacements[k][1]
                     \/ replacements[k][2] <= replacements[j][1]

\* C2 witness: a constants list with a duplicate name and a name inside
\* another, and at least two accepted spans
C2_Witness ==
    /\ pc = "done"
    /\ Len(replacements) >= 2
    /\ \E j, k \in 1..Len(constants) : j # k /\ constants[j] = constants[k]

\* C3: no accepted span of a name lies inside an occurrence of a longer
\* known name, and with X and XLONG known every bounded XLONG in the text
\* is one reference to XLONG with no reference to X inside it
C3_LongestMatch ==
    pc = "done" =>
        /\ \A k \in 1..Len(replacements) :
             \A m \in ConstantSet :
                Len(m) > Len(replacements[k][3]) =>
                  ~ \E i \in 0..replacements[k][1] :
                        /\ StartsWithAt(text, m, i)
                        /\ replacements[k][2] <= i + Len(m)
        /\ ({<<"X">>, XLONG} \subseteq ConstantSet) =>
             \A i \in 0..Len(text) :
                BoundedOccurrence(text, XLONG, i) =>
                  /\ \E k \in 1..Len(replacements) :
                        replacements[k] = <<i, i + 5, XLONG>>
                  /\ \A k \in 1..Len(replacements) :
                        replacements[k][3] = <<"X">> =>
                           \/ replacements[k][2] <= i
                           \/ replacements[k][1] >= i + 5

\* C3 witness: X declared before XLONG, and the text XLONG resolved
C3_Witness ==
    /\ pc = "done"
    /\ pass = 1
    /\ constants = <<(<<"X">>), XLONG>>
    /\ text = XLONG
    /\ replacements = <<(<<0, 5, XLONG>>)>>

\* C4: resolving the resolver's own output returns it unchanged
C4_Idempotent ==
    (pc = "done" /\ pass = 2) => result = text

\* C5: the accepted spans are exactly the bounded occurrences of the known
\* names, and the returned text holds one reference marker for each
C5_ExactlyBoundedOccurrences ==
    pc = "done" =>
        /\ \A m \in ConstantSet : \A i \in 0..Len(text) :
              BoundedOccurrence(text, m, i) <=>
                 \E k \in 1..Len(replacements) :
                    replacements[k] = <<i, i + Len(m), m>>
        /\ \A k \in 1..Len(replacements) :
              replacements[k][3] \in ConstantSet
        /\ CountOccurrences(result, AnchorOpen)
             = Cardinality({i \in 0..Len(text) :
                   \E m \in ConstantSet : BoundedOccurrence(text, m, i)})

\* C5 witness: a text with a name embedded in a longer identifier or in
\* another letter case next to a bounded occurrence that is marked
C5_Witness ==
    /\ pc = "done"
    /\ pass = 1
    /\ Len(replacements) = 1
    /\ \E m \in ConstantSet : \E i \in 0..Len(text) :
          /\ StartsWithAt(text, m, i)
          /\ ~BoundedOccurrence(text, m, i)
    /\ \E i \in 1..Len(text) : text[i] = "x"

----------------------------------------------------------------------------
(* Type values (src/datatypes.py) and Parser.parse_type *)

\* a bound or length: Union[int, str]
IntValue(n) == [kind |-> "int", int |-> n, str |-> <<>>]
StrValue(t) == [kind |-> "str", int |-> 0, str |-> t]
NoValue == [kind |-> "none", int |-> 0, str |-> <<>>]

\* the text an f-string puts for a bound
ValueToText(v) == IF v.kind = "int" THEN IntToText(v.int) ELSE v.str

ArrayDimension(lower_bound, upper_bound, is_constant_lower, is_constant_upper) ==
    [lower_bound |-> lower_bound, upper_bound |-> upper_bound,
     is_constant_lower |-> is_constant_lower,
     is_constant_upper |-> is_constant_upper]

\* the four dataclasses, as records of one shape; variant is the class
TypeValue(variant, type, base_type, dimensions, length, is_constant, lower_bound, upper_bound, is_constant_lower, is_constant_upper) ==
    [variant |-> variant, type |-> type, base_type |-> base_type,
     dimensions |-> dimensions, length |-> length,
     is_constant |-> is_constant, lower_bound |-> lower_bound,
     upper_bound |-> upper_bound, is_constant_lower |-> is_constant_lower,
     is_constant_upper |-> is_constant_upper]

BasicType(type) ==
    TypeValue("BasicType", type, <<>>, <<>>, NoValue, FALSE,
              NoValue, NoValue, FALSE, FALSE)
ArrayType(base_type, dimensions) ==
    TypeValue("ArrayType", <<>>, base_type, dimensions, NoValue, FALSE,
              NoValue, NoValue, FALSE, FALSE)
StringType(length, is_constant) ==
    TypeValue("StringType", <<>>, <<>>, <<>>, length, is_constant,
              NoValue, NoValue, FALSE, FALSE)
RangeType(base_type, lower_bound, upper_bound, is_constant_lower, is_constant_upper) ==
    TypeValue("RangeType", <<>>, base_type, <<>>, NoValue, FALSE,
              lower_bound, upper_bound, is_constant_lower, is_constant_upper)

\* the loop of ArrayType.__str__: f"{dim.lower_bound}..{dim.upper_bound},"
DimensionsText(dimensions) ==
    Concat([k \in 1..Len(dimensions) |->
              ValueToText(dimensions[k].lower_bound) \o <<".", ".">>
              \o ValueToText(dimensions[k].upper_bound) \o <<",">>])

\* __str__ of the four classes
TypeToText(t) ==
    CASE t.variant = "BasicType" -> t.type
      [] t.variant = "ArrayType" ->
           LET returnStr == t.base_type \o <<"[">>
                            \o DimensionsText(t.dimensions)
           IN SubSeq(returnStr, 1, Len(returnStr) - 1) \o <<"]">>
      [] t.variant = "StringType" ->
           <<"S","T","R","I","N","G","[">> \o ValueToText(t.length) \o <<"]">>
      [] t.variant = "RangeType" ->
           t.base_type \o <<"(">> \o ValueToText(t.lower_bound)
           \o <<".", ".">> \o ValueToText(t.upper_bound) \o <<")">>

\* the least offset at or after from where sep stands in s, or -1
FindFrom(s, sep, from) ==
    LET hits == {i \in from..Len(s) : StartsWithAt(s, sep, i)}
    IN IF hits = {} THEN -1 ELSE CHOOSE h \in hits : \A k \in hits : h <= k

RECURSIVE Split(_, _)
\* s.split(sep)
Split(s, sep) ==
    LET i == FindFrom(s, sep, 0)
    IN IF i < 0 THEN <<s>>
       ELSE <<Slice(s, 0, i)>> \o Split(Slice(s, i + Len(sep), Len(s)), sep)

ParseArrayDimensionFlagsSwapped(dim_str) ==
    Bind(Split(dim_str, <<".", ".">>), LAMBDA parts :
       IF Len(parts) # 2
       THEN [raised |-> TRUE,
             dim |-> ArrayDimension(NoValue, NoValue, FALSE, FALSE)]
       ELSE [raised |-> FALSE,
             dim |-> ArrayDimension(
                IF IsDigit(parts[1]) THEN IntValue(ParseInt(parts[1]))
                ELSE StrValue(Strip(parts[1])),
                IF IsDigit(parts[2]) THEN IntValue(ParseInt(parts[2]))
                ELSE StrValue(Strip(parts[2])),
                ~IsDigit(parts[2]), ~IsDigit(parts[1]))])

\* Parser.parse_array_dimension; raised stands for the ValueError of the
\* tuple unpacking when split('..') does not give two parts
ParseArrayDimension(dim_str) ==
    Bind(Split(dim_str, <<".", ".">>), LAMBDA parts :
       IF Len(parts) # 2
       THEN [raised |-> TRUE,
             dim |-> ArrayDimension(NoValue, NoValue, FALSE, FALSE)]
       ELSE [raised |-> FALSE,
             dim |-> ArrayDimension(
                IF IsDigit(parts[1]) THEN IntValue(ParseInt(parts[1]))
                ELSE StrValue(Strip(parts[1])),
                IF IsDigit(parts[2]) THEN IntValue(ParseInt(parts[2]))
                ELSE StrValue(Strip(parts[2])),
                ~IsDigit(parts[1]), ~IsDigit(parts[2]))])

\* r'ARRAY\s*\[(.*?)\]\s*OF\s*(\w+)'
ArrayPattern ==
    Lit(<<"A","R","R","A","Y">>)
    \o <<Star(SpaceChars), In({"["}), Group(1, <<LazyAnyInLine>>), In({"]"}),
         Star(SpaceChars)>>
    \o Lit(<<"O","F">>)
    \o <<Star(SpaceChars), Group(2, <<Plus(WordChars)>>)>>

\* r'STRING\s*\[(\w+)\]'
StringPattern ==
    Lit(<<"S","T","R","I","N","G">>)
    \o <<Star(SpaceChars), In({"["}), Group(1, <<Plus(WordChars)>>),
         In({"]"})>>

\* Parser.parse_type
ParseType(ts) ==
    Bind(ReMatch(ArrayPattern, 2, ts), LAMBDA array_match :
       IF array_match.ok
       THEN Bind(Split(GroupText(array_match, ts, 1), <<",">>), LAMBDA dim_strs :
            Bind([k \in 1..Len(dim_strs) |-> ParseArrayDimension(dim_strs[k])], LAMBDA dims :
               [raised |-> \E k \in 1..Len(dims) : dims[k].raised,
                type |-> ArrayType(GroupText(array_match, ts, 2),
                                   [k \in 1..Len(dims) |-> dims[k].dim])]))
       ELSE Bind(ReMatch(StringPattern, 1, ts), LAMBDA string_match :
               IF string_match.ok
               THEN Bind(Strip(GroupText(string_match, ts, 1)), LAMBDA length_str :
                       [raised |-> FALSE,
                        type |-> StringType(
                           IF IsDigit(length_str)
                           THEN IntValue(ParseInt(length_str))
                           ELSE StrValue(length_str),
                           ~IsDigit(length_str))])
               ELSE [raised |-> FALSE, type |-> BasicType(ts)]))

----------------------------------------------------------------------------
(* parse_type applied to type expressions, rendered and parsed again *)

MaxDims == 2

MAXX == <<"M","A","X","X">>

\* bound and length texts with what they denote: digits (a number) or a
\* bare identifier
BoundTexts ==
    {[text |-> <<"0">>, digits |-> TRUE, n |-> 0],
     [text |-> <<"0","7">>, digits |-> TRUE, n |-> 7],
     [text |-> MAXX, digits |-> FALSE, n |-> 0],
     [text |-> <<"x","_","1">>, digits |-> FALSE, n |-> 0]}

BaseNames == {<<"I","N","T">>, <<"R","E","A","L">>,
              <<"M","y","S","t","r","u","c","t">>, <<"U","d","i","n","t">>}

Shape(kind, dims, base, spaced, padded) ==
    [kind |-> kind, dims |-> dims, base |-> base, spaced |-> spaced,
     padded |-> padded]

\* ARRAY[l..u, ...] OF base (spaced: blanks around the keywords; padded:
\* blanks around each bound)
ArrayShapes ==
    {Shape("array", d, b, sp, pd) :
        d \in SeqsUpTo(BoundTexts \X BoundTexts, MaxDims) \ {<<>>},
        b \in {<<"I","N","T">>, <<"M","y","S","t","r","u","c","t">>},
        sp \in BOOLEAN, pd \in BOOLEAN}

\* ARRAY[b] OF base: a dimension that is no lower..upper pair
BadArrayShapes ==
    {Shape("badarray", <<(<<b, b>>)>>, <<"I","N","T">>, FALSE, FALSE) :
        b \in BoundTexts}

\* STRING[length]
StringShapes ==
    {Shape("string", <<(<<b, b>>)>>, <<>>, sp, FALSE) :
        b \in BoundTexts, sp \in BOOLEAN}

\* BASE(l..u)
RangeShapes ==
    {Shape("range", <<d>>, b, FALSE, FALSE) :
        d \in BoundTexts \X BoundTexts,
        b \in {<<"U","D","I","N","T">>, <<"I","N","T">>}}

\* the three expressions of the round-trip property
ArrayOfReal == Shape("array",
                     <<(<<[text |-> <<"0">>, digits |-> TRUE, n |-> 0],
                          [text |-> <<"1","0">>, digits |-> TRUE, n |-> 10]>>)>>,
                     <<"R","E","A","L">>, FALSE, FALSE)
String80 == Shape("string",
                  <<(<<[text |-> <<"8","0">>, digits |-> TRUE, n |-> 80],
                       [text |-> <<"8","0">>, digits |-> TRUE, n |-> 80]>>)>>,
                  <<>>, FALSE, FALSE)
Udint1to9 == Shape("range",
                   <<(<<[text |-> <<"1">>, digits |-> TRUE, n |-> 1],
                        [text |-> <<"9">>, digits |-> TRUE, n |-> 9]>>)>>,
                   <<"U","D","I","N","T">>, FALSE, FALSE)

BasicShapes == {Shape("basic", <<>>, b, FALSE, FALSE) : b \in BaseNames}

\* ARRAY[ 0 .. 10 ] OF INT and STRING[ 80 ]: blanks inside the brackets
ArrayOfIntPadded ==
    Shape("array",
          <<(<<[text |-> <<"0">>, digits |-> TRUE, n |-> 0],
               [text |-> <<"1","0">>, digits |-> TRUE, n |-> 10]>>)>>,
          <<"I","N","T">>, FALSE, TRUE)
String80Padded == [String80 EXCEPT !.padded = TRUE]

TypeShapes ==
    ArrayShapes \cup BadArrayShapes \cup StringShapes \cup RangeShapes
    \cup BasicShapes \cup {ArrayOfReal, String80, Udint1to9}
    \cup {ArrayOfIntPadded, String80Padded}

Blank(on) == IF on THEN <<" ">> ELSE <<>>

\* the text of a shape
ShapeText(sh) ==
    CASE sh.kind = "array" ->
           LET dimsText == Concat([k \in 1..Len(sh.dims) |->
                              (IF k > 1 THEN <<",">> ELSE <<>>)
                              \o Blank(sh.padded) \o sh.dims[k][1].text
                              \o Blank(sh.padded) \o <<".", ".">>
                              \o Blank(sh.padded) \o sh.dims[k][2].text
                              \o Blank(sh.padded)])
           IN Concat(<<(<<"A","R","R","A","Y">>), Blank(sh.spaced), <<"[">>,
                       dimsText, <<"]">>, <<" ">>, <<"O","F">>, <<" ">>,
                       Blank(sh.spaced), sh.base>>)
      [] sh.kind = "badarray" ->
           Concat(<<(<<"A","R","R","A","Y","[">>), sh.dims[1][1].text,
                    <<"]"," ","O","F"," ">>, sh.base>>)
      [] sh.kind = "string" ->
           Concat(<<(<<"S","T","R","I","N","G">>), Blank(sh.spaced), <<"[">>,
                    Blank(sh.padded), sh.dims[1][1].text, Blank(sh.padded),
                    <<"]">>>>)
      [] sh.kind = "range" ->
           Concat(<<sh.base, <<"(">>, sh.dims[1][1].text, <<".", ".">>,
                    sh.dims[1][2].text, <<")">>>>)
      [] sh.kind = "basic" -> sh.base

NoType == [raised |-> FALSE, type |-> BasicType(<<>>)]

TypeInit ==
    /\ pc = "start"
    /\ shape \in TypeShapes
    /\ type_str = ShapeText(shape)
    /\ parsed = NoType
    /\ rendered = <<>>
    /\ reparsed = NoType
    /\ LinkIdle /\ TypIdle /\ FunIdle /\ DeclIdle

\* parsed = parse_type(type_str)
DoParseType ==
    /\ pc = "start"
    /\ parsed' = ParseType(type_str)
    /\ pc' = IF parsed'.raised THEN "raised" ELSE "parsed"
    /\ UNCHANGED <<shape, type_str, rendered, reparsed, linkVars, typVars,
                   funVars, declVars>>

\* rendered = str(parsed)
DoRender ==
    /\ pc = "parsed"
    /\ rendered' = TypeToText(parsed.type)
    /\ pc' = "rendered"
    /\ UNCHANGED <<shape, type_str, parsed, reparsed, linkVars, typVars,
                   funVars, declVars>>

\* reparsed = parse_type(rendered)
DoReparse ==
    /\ pc = "rendered"
    /\ reparsed' = ParseType(rendered)
    /\ pc' = "reparsed"
    /\ UNCHANGED <<shape, type_str, parsed, rendered, linkVars, typVars,
                   funVars, declVars>>

TypeNext == DoParseType \/ DoRender \/ DoReparse

TypeSpec == TypeInit /\ [][TypeNext]_vars

----------------------------------------------------------------------------
(* Properties of parse_type *)

\* what a bound text denotes: the number, or the identifier itself
Denoted(b) == IF b.digits THEN IntValue(b.n) ELSE StrValue(b.text)

C9_RoundTrip ==
    (pc = "reparsed" /\ shape \in {ArrayOfReal, String80, Udint1to9}) =>
        reparsed = parsed

\* C10: an expression BASE(lower..upper) is returned as the Range variant
\* with its base and bounds, and Basic is returned, spelled as given, only
\* for an expression of none of the three structured forms
C10_RangeVariant ==
    pc \in {"parsed", "rendered", "reparsed"} =>
        /\ shape.kind = "range" =>
             /\ parsed.type.variant = "RangeType"
             /\ parsed.type.base_type = shape.base
             /\ parsed.type.lower_bound = Denoted(shape.dims[1][1])
             /\ parsed.type.upper_bound = Denoted(shape.dims[1][2])
        /\ parsed.type.variant = "BasicType" =>
             /\ shape.kind = "basic"
             /\ parsed.type.type = type_str

\* the shape written without the blanks inside its brackets
Unpadded(sh) == [sh EXCEPT !.padded = FALSE]

\* C11: blanks inside the brackets of a type expression do not change what
\* parse_type returns: the expression written with them parses to the value
\* the expression written without them parses to
C11_BracketWhitespaceInsignificant ==
    (pc # "start" /\ shape.padded) =>
        parsed = ParseType(ShapeText(Unpadded(shape)))

----------------------------------------------------------------------------
(* Declarations (src/datatypes.py) and Parser.parse_variable_section *)

\* Optional[str]
None == [some |-> FALSE, text |-> <<>>]
Some(t) == [some |-> TRUE, text |-> t]

\* match.group(g) as an Optional[str]
GroupOpt(m, s, g) == IF GroupSet(m, g) THEN Some(GroupText(m, s, g)) ELSE None

\* x.strip() if x else None
StripOrNone(o) == IF o.some /\ o.text # <<>> THEN Some(Strip(o.text)) ELSE None

\* the Variable dataclass; class is the subclass the section asked for
Variable(class, name, type, is_reference, redundancy_info, default_value, comment1, comment2, comment3, retain) ==
    [class |-> class, name |-> name, type |-> type,
     is_reference |-> is_reference, redundancy_info |-> redundancy_info,
     default_value |-> default_value, comment1 |-> comment1,
     comment2 |-> comment2, comment3 |-> comment3, retain |-> retain]

\* (?:\s*\(\*(.*?)\*\))? with capture group g
CommentGroup(g) ==
    Opt(<<Star(SpaceChars)>> \o Lit(<<"(","*">>) \o <<Group(g, <<LazyAny>>)>>
        \o Lit(<<"*",")">>))

\* var_pattern, compiled with re.DOTALL:
\* \s*(\w+)\s*:\s*(\{.*?\}\s*)?(REFERENCE TO )?([\w\s\[\]\.,]+?)
\* (?:\s*:=\s*([\w\.\#\-]+))?\s*; and three optional comments
VarPattern ==
    <<Star(SpaceChars), Group(1, <<Plus(WordChars)>>), Star(SpaceChars),
      In({":"}), Star(SpaceChars),
      Opt(<<Group(2, <<In({"{"}), LazyAny, In({"}"}), Star(SpaceChars)>>)>>),
      Opt(<<Group(3, Lit(<<"R","E","F","E","R","E","N","C","E"," ","T","O"," ">>))>>),
      Group(4, <<LazyPlus(WordChars \cup SpaceChars \cup {"[", "]", ".", ","})>>),
      Opt(<<Star(SpaceChars)>> \o Lit(<<":","=">>)
          \o <<Star(SpaceChars),
               Group(5, <<Plus(WordChars \cup {".", "#", "-"})>>)>>),
      Star(SpaceChars), In({";"}),
      CommentGroup(6), CommentGroup(7), CommentGroup(8)>>

\* Parser.parse_variable_section; raised stands for the ValueError that
\* parse_type lets through from parse_array_dimension
ParseVariableSection(section, var_class, is_retain) ==
    Bind(ReFindIter(VarPattern, 8, section), LAMBDA ms :
    Bind([k \in 1..Len(ms) |-> ParseType(Strip(GroupText(ms[k], section, 4)))], LAMBDA types :
       IF \E k \in 1..Len(ms) : types[k].raised
       THEN [raised |-> TRUE, variables |-> <<>>]
       ELSE [raised |-> FALSE,
             variables |->
                [k \in 1..Len(ms) |->
                   Variable(var_class,
                            GroupText(ms[k], section, 1),
                            types[k].type,
                            GroupSet(ms[k], 3),
                            GroupOpt(ms[k], section, 2),
                            StripOrNone(GroupOpt(ms[k], section, 5)),
                            GroupOpt(ms[k], section, 6),
                            GroupOpt(ms[k], section, 7),
                            GroupOpt(ms[k], section, 8),
                            is_retain)]]))

----------------------------------------------------------------------------
(* StructureParser and EnumerationParser *)

Structure(name, members, description) ==
    [name |-> name, members |-> members, description |-> description]

EnumLiteral(name, value, comment1, comment2, comment3) ==
    [name |-> name, value |-> value, comment1 |-> comment1,
     comment2 |-> comment2, comment3 |-> comment3]

Enumeration(name, literals, description, default_value) ==
    [name |-> name, literals |-> literals, description |-> description,
     default_value |-> default_value]

\* (\w+)\s*:\s*STRUCT\s*(?:\(\*(.*?)\*\))?\s*(.*?)\s*END_STRUCT\s*;
\* compiled with re.DOTALL
StructPattern ==
    <<Group(1, <<Plus(WordChars)>>), Star(SpaceChars), In({":"}),
      Star(SpaceChars)>>
    \o Lit(<<"S","T","R","U","C","T">>)
    \o <<Star(SpaceChars),
         Opt(Lit(<<"(","*">>) \o <<Group(2, <<LazyAny>>)>> \o Lit(<<"*",")">>)),
         Star(SpaceChars), Group(3, <<LazyAny>>), Star(SpaceChars)>>
    \o Lit(<<"E","N","D","_","S","T","R","U","C","T">>)
    \o <<Star(SpaceChars), In({";"})>>

NoStructure == Structure(<<>>, <<>>, None)

\* StructureParser.parse; raised stands for its ValueError and for the one
\* parse_variable_section lets through
StructureParse(content) ==
    Bind(ReSearch(StructPattern, 3, content), LAMBDA struct_match :
       IF ~struct_match.ok THEN [raised |-> TRUE, structure |-> NoStructure]
       ELSE Bind(ParseVariableSection(GroupText(struct_match, content, 3), "Var", FALSE), LAMBDA members :
               IF members.raised
               THEN [raised |-> TRUE, structure |-> NoStructure]
               ELSE [raised |-> FALSE,
                     structure |->
                        Structure(GroupText(struct_match, content, 1),
                                  members.variables,
                                  StripOrNone(GroupOpt(struct_match, content, 2)))]))

\* s.endswith(p)
EndsWith(s, p) == Len(p) <= Len(s) /\ StartsWithAt(s, p, Len(s) - Len(p))

RECURSIVE CleanLines(_, _)
\* the loop that drops the lines that are comment only; in_multiline_comment
\* is carried from line to line
CleanLines(lines, in_multiline_comment) ==
    IF lines = <<>> THEN <<>>
    ELSE LET stripped == Strip(Head(lines))
         IN IF StartsWithAt(stripped, <<"(","*">>, 0) /\ EndsWith(stripped, <<"*",")">>)
            THEN CleanLines(Tail(lines), in_multiline_comment)
            ELSE IF StartsWithAt(stripped, <<"(","*">>, 0)
            THEN CleanLines(Tail(lines), TRUE)
            ELSE IF EndsWith(stripped, <<"*",")">>) /\ in_multiline_comment
            THEN CleanLines(Tail(lines), FALSE)
            ELSE IF in_multiline_comment
            THEN CleanLines(Tail(lines), in_multiline_comment)
            ELSE <<Head(lines)>> \o CleanLines(Tail(lines), in_multiline_comment)

\* sep.join(parts)
Join(sep, parts) ==
    Concat([k \in 1..Len(parts) |->
              (IF k > 1 THEN sep ELSE <<>>) \o parts[k]])

\* (\w+)\s*:\s*\(\s*(?:\(\*(.*?)\*\))?\s*(.*?)\s*\)(?:\s*:=\s*(\w+))?\s*;
\* compiled with re.DOTALL
EnumPattern ==
    <<Group(1, <<Plus(WordChars)>>), Star(SpaceChars), In({":"}),
      Star(SpaceChars), In({"("}), Star(SpaceChars),
      Opt(Lit(<<"(","*">>) \o <<Group(2, <<LazyAny>>)>> \o Lit(<<"*",")">>)),
      Star(SpaceChars), Group(3, <<LazyAny>>), Star(SpaceChars), In({")"}),
      Opt(<<Star(SpaceChars)>> \o Lit(<<":","=">>)
          \o <<Star(SpaceChars), Group(4, <<Plus(WordChars)>>)>>),
      Star(SpaceChars), In({";"})>>

\* (\w+)(?:\s*:=\s*([\w#]+))?\s*(?:,)? and three optional comments,
\* compiled with re.DOTALL
LiteralPattern ==
    <<Group(1, <<Plus(WordChars)>>),
      Opt(<<Star(SpaceChars)>> \o Lit(<<":","=">>)
          \o <<Star(SpaceChars), Group(2, <<Plus(WordChars \cup {"#"})>>)>>),
      Star(SpaceChars), Opt(<<In({","})>>),
      CommentGroup(3), CommentGroup(4), CommentGroup(5)>>

NoEnumeration == Enumeration(<<>>, <<>>, None, None)

\* EnumerationParser.parse; raised stands for its ValueError
EnumerationParse(content) ==
    Bind(Join(<<"\n">>, CleanLines(Split(content, <<"\n">>), FALSE)), LAMBDA cleaned_content :
    Bind(ReSearch(EnumPattern, 4, cleaned_content), LAMBDA enum_match :
       IF ~enum_match.ok
       THEN [raised |-> TRUE, enumeration |-> NoEnumeration]
       ELSE Bind(GroupText(enum_match, cleaned_content, 3), LAMBDA literals_content :
            Bind(ReFindIter(LiteralPattern, 5, literals_content), LAMBDA ms :
               [raised |-> FALSE,
                enumeration |->
                   Enumeration(
                      GroupText(enum_match, cleaned_content, 1),
                      [k \in 1..Len(ms) |->
                         EnumLiteral(
                            Strip(GroupText(ms[k], literals_content, 1)),
                            StripOrNone(GroupOpt(ms[k], literals_content, 2)),
                            StripOrNone(GroupOpt(ms[k], literals_content, 3)),
                            StripOrNone(GroupOpt(ms[k], literals_content, 4)),
                            StripOrNone(GroupOpt(ms[k], literals_content, 5)))],
                      StripOrNone(GroupOpt(enum_match, cleaned_content, 2)),
                      GroupOpt(enum_match, cleaned_content, 4))]))))

----------------------------------------------------------------------------
(* TypeFileParser *)

\* TYPE\s+(.*?)\s+END_TYPE, compiled with re.DOTALL | re.IGNORECASE
TypeBlockPattern ==
    ILit(<<"T","Y","P","E">>)
    \o <<Plus(SpaceChars), Group(1, <<LazyAny>>), Plus(SpaceChars)>>
    \o ILit(<<"E","N","D","_","T","Y","P","E">>)

\* TypeFileParser.parse_type_blocks
ParseTypeBlocks(file_content) ==
    Bind(ReFindIter(TypeBlockPattern, 1, file_content), LAMBDA blocks :
       [k \in 1..Len(blocks) |-> GroupText(blocks[k], file_content, 1)])

\* (\w+\s*:\s*STRUCT\s+.*?\s+END_STRUCT\s*;) with re.DOTALL | re.IGNORECASE
StructDefinitionPattern ==
    <<Group(1, <<Plus(WordChars), Star(SpaceChars), In({":"}),
                 Star(SpaceChars)>>
               \o ILit(<<"S","T","R","U","C","T">>)
               \o <<Plus(SpaceChars), LazyAny, Plus(SpaceChars)>>
               \o ILit(<<"E","N","D","_","S","T","R","U","C","T">>)
               \o <<Star(SpaceChars), In({";"})>>)>>

\* (\w+)\s*:\s*\(
EnumOpenPattern ==
    <<Group(1, <<Plus(WordChars)>>), Star(SpaceChars), In({":"}),
      Star(SpaceChars), In({"("})>>

\* :=\s*(\w+)\s*;
DefaultPattern ==
    Lit(<<":","=">>)
    \o <<Star(SpaceChars), Group(1, <<Plus(WordChars)>>), Star(SpaceChars),
         In({";"})>>

\* \s*;
SemiPattern == <<Star(SpaceChars), In({";"})>>

\* \w+\s*:
NextTypePattern == <<Plus(WordChars), Star(SpaceChars), In({":"})>>

RECURSIVE ScanParens(_, _, _, _)
\* the inner while loop, from pos on: it steps over every position at which
\* its body changes nothing, so the scan goes from one position where the
\* body acts to the next.  closed: the loop left through its break, at the
\* closing parenthesis pos; otherwise pos = len(remaining)
ScanParens(remaining, pos, in_comment, paren_count) ==
    LET n == Len(remaining)
        opens(p) == p < n - 1 /\ StartsWithAt(remaining, <<"(","*">>, p)
        closes(p) == p < n - 1 /\ StartsWithAt(remaining, <<"*",")">>, p)
        acts == {p \in pos..(n - 1) :
                    \/ opens(p)
                    \/ closes(p)
                    \/ ~in_comment /\ remaining[p + 1] \in {"(", ")"}}
    IN IF acts = {}
       THEN [closed |-> FALSE, pos |-> IF pos > n THEN pos ELSE n,
             paren_count |-> paren_count]
       ELSE LET p == CHOOSE a \in acts : \A b \in acts : a <= b
            IN IF opens(p)
               THEN ScanParens(remaining, p + 2, TRUE, paren_count)
               ELSE IF closes(p)
               THEN ScanParens(remaining, p + 2, FALSE, paren_count)
               ELSE IF remaining[p + 1] = "("
               THEN ScanParens(remaining, p + 1, in_comment, paren_count + 1)
               ELSE IF paren_count - 1 = 0
               THEN [closed |-> TRUE, pos |-> p, paren_count |-> 0]
               ELSE ScanParens(remaining, p + 1, in_comment, paren_count - 1)

RECURSIVE ExtractLoop(_, _)
\* the outer while loop; hangs: an iteration came back to the loop head
\* with remaining and definitions as they were, which the loop then repeats
\* without end
ExtractLoop(remaining_in, definitions) ==
    Bind(Strip(remaining_in), LAMBDA remaining :
    IF remaining = <<>>
    THEN [hangs |-> FALSE, definitions |-> definitions]
    ELSE
    Bind(ReMatch(StructDefinitionPattern, 1, remaining), LAMBDA struct_match :
    IF struct_match.ok
    THEN ExtractLoop(Slice(remaining, struct_match.end, Len(remaining)),
                     Append(definitions,
                            GroupText(struct_match, remaining, 1)))
    ELSE
    Bind(ReMatch(EnumOpenPattern, 1, remaining), LAMBDA enum_match :
    IF enum_match.ok
    THEN Bind(ScanParens(remaining, enum_match.end - 1, FALSE, 0), LAMBDA scan :
         IF scan.closed
         THEN Bind(Slice(remaining, scan.pos + 1, Len(remaining)), LAMBDA after :
              Bind(LStrip(after), LAMBDA rest :
              Bind(ReMatch(DefaultPattern, 1, rest), LAMBDA default_match :
              Bind(ReMatch(SemiPattern, 0, rest), LAMBDA semi_match :
              Bind(IF default_match.ok
                   THEN scan.pos + 1 + Len(after) - Len(rest) + default_match.end
                   ELSE IF semi_match.ok
                   THEN scan.pos + 1 + Len(after) - Len(rest) + semi_match.end
                   ELSE scan.pos + 1, LAMBDA end_pos :
                 ExtractLoop(Slice(remaining, end_pos, Len(remaining)),
                             Append(definitions,
                                    Slice(remaining, 0, end_pos))))))))
         ELSE IF scan.paren_count # 0
         THEN Bind(ReSearch(NextTypePattern, 0, Slice(remaining, scan.pos, Len(remaining))), LAMBDA next_type :
                 IF next_type.ok
                 THEN ExtractLoop(Slice(remaining, scan.pos + next_type.start, Len(remaining)),
                                  definitions)
                 ELSE [hangs |-> FALSE, definitions |-> definitions])
         ELSE [hangs |-> TRUE, definitions |-> definitions])
    ELSE Bind(ReSearch(NextTypePattern, 0, Slice(remaining, 1, Len(remaining))), LAMBDA next_type :
            IF next_type.ok
            THEN ExtractLoop(Slice(remaining, 1 + next_type.start, Len(remaining)),
                             definitions)
            ELSE [hangs |-> FALSE, definitions |-> definitions]))))

\* TypeFileParser.extract_type_definitions_improved
ExtractTypeDefinitionsImproved(type_block) == ExtractLoop(type_block, <<>>)

\* the body of the loop over the definitions of parse_typ_file: what one
\* definition is parsed as
ParseDefinition(definition) ==
    Bind(IF Contains(ToUpper(definition), <<"S","T","R","U","C","T">>)
         THEN StructureParse(definition)
         ELSE [raised |-> TRUE, structure |-> NoStructure], LAMBDA struct :
       IF ~struct.raised
       THEN [kind |-> "structure", structure |-> struct.structure,
             enumeration |-> NoEnumeration]
       ELSE Bind(IF Contains(definition, <<":">>) /\ Contains(definition, <<"(">>)
                 THEN EnumerationParse(definition)
                 ELSE [raised |-> TRUE, enumeration |-> NoEnumeration], LAMBDA enum :
               IF ~enum.raised
               THEN [kind |-> "enumeration", structure |-> NoStructure,
                     enumeration |-> enum.enumeration]
               ELSE [kind |-> "skipped", structure |-> NoStructure,
                     enumeration |-> NoEnumeration]))

\* TypeFileParser.parse_typ_file on the content read from the file; hangs:
\* extract_type_definitions_improved does not return for one of the blocks
ParseTypFile(content) ==
    Bind(ParseTypeBlocks(content), LAMBDA type_blocks :
    Bind([k \in 1..Len(type_blocks) |-> ExtractTypeDefinitionsImproved(type_blocks[k])], LAMBDA extracted :
       IF \E k \in 1..Len(extracted) : extracted[k].hangs
       THEN [hangs |-> TRUE, structures |-> <<>>, enumerations |-> <<>>]
       ELSE Bind(Concat([k \in 1..Len(extracted) |-> extracted[k].definitions]), LAMBDA definitions :
            Bind([k \in 1..Len(definitions) |-> ParseDefinition(definitions[k])], LAMBDA parsed_defs :
               [hangs |-> FALSE,
                structures |->
                   Concat([k \in 1..Len(parsed_defs) |->
                             IF parsed_defs[k].kind = "structure"
                             THEN <<parsed_defs[k].structure>> ELSE <<>>]),
                enumerations |->
                   Concat([k \in 1..Len(parsed_defs) |->
                             IF parsed_defs[k].kind = "enumeration"
                             THEN <<parsed_defs[k].enumeration>> ELSE <<>>])]))))

----------------------------------------------------------------------------
(* LibraryDeclarationToChm.get_type_link *)

\* the names of a list of declarations
Names(decls) == {decls[k].name : k \in 1..Len(decls)}

\* the offset just behind the bracket that closes the one at bracket_start,
\* or len(base_type): where the bracket-counting loop stops
BracketEnd(base_type, bracket_start) ==
    LET n == Len(base_type)
        count(e) ==
            1 + Cardinality({k \in (bracket_start + 2)..e : base_type[k] = "["})
              - Cardinality({k \in (bracket_start + 2)..e : base_type[k] = "]"})
        stops == {e \in (bracket_start + 1)..n : count(e) <= 0 \/ e >= n}
    IN IF stops = {} THEN bracket_start + 1
       ELSE CHOOSE e \in stops : \A k \in stops : e <= k

\* f'{prefix}<a href="{relative_path}DataTypes/{folder}/{base}.html">{base}</a>'
TypeAnchor(prefix, folder, base_type, relative_path) ==
    Concat(<<prefix, AnchorOpen, relative_path, <<"D","a","t","a","T","y","p","e","s","/">>, folder,
             <<"/">>, HtmlEscape(base_type), <<".","h","t","m","l">>, <<"\"", ">">>,
             HtmlEscape(base_type), AnchorClose>>)

\* the array branch applied to base_type: the prefix and base type it leaves
ArrayBranch(base_type, prefix, consts, relative_path) ==
    Bind(FindFrom(ToUpper(base_type), <<"A","R","R","A","Y">>, 0), LAMBDA array_start_idx :
    Bind(FindFrom(base_type, <<"[">>, array_start_idx), LAMBDA bracket_start :
    Bind(BracketEnd(base_type, bracket_start), LAMBDA bracket_end :
    Bind(LinkConstantsInText(Slice(base_type, bracket_start, bracket_end), consts, relative_path), LAMBDA array_dimensions :
    Bind(Strip(Slice(base_type, bracket_end, Len(base_type))), LAMBDA remaining :
       IF StartsWithAt(ToUpper(remaining), <<"O","F"," ">>, 0)
       THEN [prefix |-> Concat(<<prefix, <<"A","r","r","a","y"," ">>, array_dimensions,
                                 <<" ","o","f"," ">>>>),
             base_type |-> Strip(Slice(remaining, 3, Len(remaining)))]
       ELSE [prefix |-> Concat(<<prefix, <<"A","r","r","a","y"," ">>, array_dimensions,
                                 <<" ">>>>),
             base_type |-> Strip(remaining)])))))

GetTypeLinkEscapeOnly(type_name, structs, enums, consts, relative_path) ==
    HtmlEscape(Strip(type_name))

\* get_type_link(type_name, relative_path); structs, enums and consts are
\* the library's structures, enumerations and constant names
GetTypeLink(type_name, structs, enums, consts, relative_path) ==
    Bind(Strip(type_name), LAMBDA original_type :
    Bind(StartsWithAt(ToUpper(original_type), <<"P","O","I","N","T","E","R"," ","T","O"," ">>, 0), LAMBDA pointer :
    Bind(IF pointer THEN Strip(Slice(original_type, 11, Len(original_type)))
         ELSE original_type, LAMBDA base1 :
    Bind(IF pointer THEN <<"P","o","i","n","t","e","r"," ","t","o"," ">> ELSE <<>>, LAMBDA prefix1 :
    Bind(StartsWithAt(ToUpper(base1), <<"R","E","F","E","R","E","N","C","E"," ","T","O"," ">>, 0), LAMBDA reference :
    Bind(IF reference THEN Strip(Slice(base1, 13, Len(base1))) ELSE base1, LAMBDA base2 :
    Bind(IF reference THEN <<"R","e","f","e","r","e","n","c","e"," ","t","o"," ">> ELSE prefix1, LAMBDA prefix2 :
    Bind(StartsWithAt(ToUpper(base2), <<"A","R","R","A","Y"," ","O","F"," ">>, 0), LAMBDA array_of :
    Bind(IF array_of THEN Strip(Slice(base2, 9, Len(base2))) ELSE base2, LAMBDA base3 :
    Bind(IF array_of THEN prefix2 \o <<"A","r","r","a","y"," ","o","f"," ">> ELSE prefix2, LAMBDA prefix3 :
    Bind(IF \/ Contains(ToUpper(base3), <<"A","R","R","A","Y"," ","[">>)
            \/ Contains(ToUpper(base3), <<"A","R","R","A","Y","[">>)
         THEN ArrayBranch(base3, prefix3, consts, relative_path)
         ELSE [prefix |-> prefix3, base_type |-> base3], LAMBDA branch :
       IF branch.base_type \in Names(structs)
       THEN TypeAnchor(branch.prefix, <<"S","t","r","u","c","t","u","r","e","s">>, branch.base_type, relative_path)
       ELSE IF branch.base_type \in Names(enums)
       THEN TypeAnchor(branch.prefix, <<"E","n","u","m","e","r","a","t","i","o","n","s">>, branch.base_type, relative_path)
       ELSE branch.prefix \o LinkConstantsInText(branch.base_type, consts, relative_path))))))))))))

----------------------------------------------------------------------------
(* FunctionBlockParser, FunctionParser and LibraryDeclarationFileParser *)

FunctionBlock(name, description, var_input, var_output, var, var_in_out, var_constant) ==
    [name |-> name, description |-> description, var_input |-> var_input,
     var_output |-> var_output, var |-> var, var_in_out |-> var_in_out,
     var_constant |-> var_constant]

Function(name, return_type, description, var_input, var_in_out, var) ==
    [name |-> name, return_type |-> return_type,
     description |-> description, var_input |-> var_input,
     var_in_out |-> var_in_out, var |-> var]

\* FUNCTION_BLOCK\s+(\w+)\s*(?:\(\*(.*?)\*\))?, compiled with re.DOTALL
FbPattern ==
    Lit(<<"F","U","N","C","T","I","O","N","_","B","L","O","C","K">>)
    \o <<Plus(SpaceChars), Group(1, <<Plus(WordChars)>>), Star(SpaceChars),
         Opt(Lit(<<"(","*">>) \o <<Group(2, <<LazyAny>>)>> \o Lit(<<"*",")">>))>>

\* VAR(_INPUT|_OUTPUT|_CONSTANT|_IN_OUT)?\s*(RETAIN)?\s*(.*?)\s*END_VAR,
\* compiled with re.DOTALL
FbVarSectionPattern ==
    Lit(<<"V","A","R">>)
    \o <<Opt(<<Group(1, <<Alt(Lit(<<"_","I","N","P","U","T">>),
                              <<Alt(Lit(<<"_","O","U","T","P","U","T">>),
                                    <<Alt(Lit(<<"_","C","O","N","S","T","A","N","T">>),
                                          Lit(<<"_","I","N","_","O","U","T">>))>>)>>)>>)>>),
         Star(SpaceChars), Opt(<<Group(2, Lit(<<"R","E","T","A","I","N">>))>>),
         Star(SpaceChars), Group(3, <<LazyAny>>), Star(SpaceChars)>>
    \o Lit(<<"E","N","D","_","V","A","R">>)

\* the variables of every section whatever its kind: sections that are not
\* told apart by their keyword
SectionVariablesAnyKind(kinds, sections, kind) ==
    Concat([k \in 1..Len(sections) |-> sections[k].variables])

\* the variables of the sections of one kind, in the order of the sections
SectionVariables(kinds, sections, kind) ==
    Concat([k \in 1..Len(sections) |->
              IF kinds[k] = kind THEN sections[k].variables ELSE <<>>])

NoFunctionBlock == FunctionBlock(<<>>, None, <<>>, <<>>, <<>>, <<>>, <<>>)

\* FunctionBlockParser.parse; raised stands for its ValueError and for the
\* one parse_variable_section lets through
FunctionBlockParse(content) ==
    Bind(ReSearch(FbPattern, 2, content), LAMBDA fb_match :
    IF ~fb_match.ok
    THEN [raised |-> TRUE, function_block |-> NoFunctionBlock]
    ELSE
    Bind(ReFindIter(FbVarSectionPattern, 3, content), LAMBDA ms :
    Bind([k \in 1..Len(ms) |->
            LET section_type == GroupText(ms[k], content, 1)
            IN CASE section_type = <<"_","I","N","P","U","T">> -> "VarInput"
                 [] section_type = <<"_","O","U","T","P","U","T">> -> "VarOutput"
                 [] section_type = <<"_","C","O","N","S","T","A","N","T">> -> "VarConstant"
                 [] section_type = <<"_","I","N","_","O","U","T">> -> "VarInOut"
                 [] OTHER -> "Var"], LAMBDA kinds :
    Bind([k \in 1..Len(ms) |->
            ParseVariableSection(
               GroupText(ms[k], content, 3), kinds[k],
               IF kinds[k] = "VarInOut" THEN FALSE
               ELSE GroupSet(ms[k], 2))], LAMBDA sections :
       IF \E k \in 1..Len(ms) : sections[k].raised
       THEN [raised |-> TRUE, function_block |-> NoFunctionBlock]
       ELSE [raised |-> FALSE,
             function_block |->
                FunctionBlock(GroupText(fb_match, content, 1),
                              Some(IF GroupSet(fb_match, 2)
                                   THEN Strip(GroupText(fb_match, content, 2))
                                   ELSE <<>>),
                              SectionVariables(kinds, sections, "VarInput"),
                              SectionVariables(kinds, sections, "VarOutput"),
                              SectionVariables(kinds, sections, "Var"),
                              SectionVariables(kinds, sections, "VarInOut"),
                              SectionVariables(kinds, sections, "VarConstant"))]))))

\* FUNCTION\s+(\w+)\s*:\s*(\w+)\s*(?:\(\*(.*?)\*\))?, compiled with re.DOTALL
FuncPattern ==
    Lit(<<"F","U","N","C","T","I","O","N">>)
    \o <<Plus(SpaceChars), Group(1, <<Plus(WordChars)>>), Star(SpaceChars),
         In({":"}), Star(SpaceChars), Group(2, <<Plus(WordChars)>>),
         Star(SpaceChars),
         Opt(Lit(<<"(","*">>) \o <<Group(3, <<LazyAny>>)>> \o Lit(<<"*",")">>))>>

\* VAR(_INPUT|_IN_OUT)?\s*(.*?)\s*END_VAR, compiled with re.DOTALL
FuncVarSectionPattern ==
    Lit(<<"V","A","R">>)
    \o <<Opt(<<Group(1, <<Alt(Lit(<<"_","I","N","P","U","T">>), Lit(<<"_","I","N","_","O","U","T">>))>>)>>),
         Star(SpaceChars), Group(2, <<LazyAny>>), Star(SpaceChars)>>
    \o Lit(<<"E","N","D","_","V","A","R">>)

NoFunction == Function(<<>>, <<>>, None, <<>>, <<>>, <<>>)

\* FunctionParser.parse; raised stands for its ValueError and for the one
\* parse_variable_section lets through
FunctionParse(content) ==
    Bind(ReSearch(FuncPattern, 3, content), LAMBDA func_match :
    IF ~func_match.ok
    THEN [raised |-> TRUE, function |-> NoFunction]
    ELSE
    Bind(ReFindIter(FuncVarSectionPattern, 2, content), LAMBDA ms :
    Bind([k \in 1..Len(ms) |->
            LET section_type == GroupText(ms[k], content, 1)
            IN CASE section_type = <<"_","I","N","P","U","T">> -> "VarInput"
                 [] section_type = <<"_","I","N","_","O","U","T">> -> "VarInOut"
                 [] OTHER -> "Var"], LAMBDA kinds :
    Bind([k \in 1..Len(ms) |->
            ParseVariableSection(GroupText(ms[k], content, 2),
                                 kinds[k], FALSE)], LAMBDA sections :
       IF \E k \in 1..Len(ms) : sections[k].raised
       THEN [raised |-> TRUE, function |-> NoFunction]
       ELSE [raised |-> FALSE,
             function |->
                Function(GroupText(func_match, content, 1),
                         Strip(GroupText(func_match, content, 2)),
                         Some(IF GroupSet(func_match, 3)
                              THEN Strip(GroupText(func_match, content, 3))
                              ELSE <<>>),
                         SectionVariables(kinds, sections, "VarInput"),
                         SectionVariables(kinds, sections, "VarInOut"),
                         SectionVariables(kinds, sections, "Var"))]))))

\* (FUNCTION_BLOCK|FUNCTION).*?(END_FUNCTION_BLOCK|END_FUNCTION), compiled
\* with re.DOTALL
BlockPattern ==
    <<Group(1, <<Alt(Lit(<<"F","U","N","C","T","I","O","N","_","B","L","O","C","K">>), Lit(<<"F","U","N","C","T","I","O","N">>))>>),
      LazyAny,
      Group(2, <<Alt(Lit(<<"E","N","D","_","F","U","N","C","T","I","O","N","_","B","L","O","C","K">>), Lit(<<"E","N","D","_","F","U","N","C","T","I","O","N">>))>>)>>

\* LibraryDeclarationFileParser.parse_blocks
ParseBlocks(file_content) ==
    Bind(ReFindIter(BlockPattern, 2, file_content), LAMBDA blocks :
       [k \in 1..Len(blocks) |->
          Slice(file_content, blocks[k].start, blocks[k].end)])

\* the body of the loop of parse_fun_file: what one block is parsed as
ParseBlock(block) ==
    IF Contains(block, <<"F","U","N","C","T","I","O","N","_","B","L","O","C","K">>)
    THEN Bind(FunctionBlockParse(block), LAMBDA fb :
            [kind |-> "function_block", raised |-> fb.raised,
             function_block |-> fb.function_block, function |-> NoFunction])
    ELSE IF Contains(block, <<"F","U","N","C","T","I","O","N">>)
    THEN Bind(FunctionParse(block), LAMBDA func :
            [kind |-> "function", raised |-> func.raised,
             function_block |-> NoFunctionBlock, function |-> func.function])
    ELSE [kind |-> "none", raised |-> FALSE,
          function_block |-> NoFunctionBlock, function |-> NoFunction]

\* LibraryDeclarationFileParser.parse_fun_file on the content read from the
\* file: the loop runs up to the first block whose parser raises, and the
\* exception leaves parse_fun_file; functions and function_blocks are the
\* parser's lists at that moment
ParseFunFile(content) ==
    Bind(ParseBlocks(content), LAMBDA blocks :
    Bind([k \in 1..Len(blocks) |-> ParseBlock(blocks[k])], LAMBDA parsed_blocks :
    Bind({k \in 1..Len(blocks) : parsed_blocks[k].raised}, LAMBDA failing :
    Bind(IF failing = {} THEN Len(blocks)
         ELSE (CHOOSE k \in failing : \A j \in failing : k <= j) - 1, LAMBDA done :
       [raised |-> failing # {},
        functions |->
           Concat([k \in 1..done |->
                     IF parsed_blocks[k].kind = "function"
                     THEN <<parsed_blocks[k].function>> ELSE <<>>]),
        function_blocks |->
           Concat([k \in 1..done |->
                     IF parsed_blocks[k].kind = "function_block"
                     THEN <<parsed_blocks[k].function_block>> ELSE <<>>])]))))

----------------------------------------------------------------------------
(* A type file parsed and the pages of its structures generated *)

INT == <<"I","N","T">>
MINX == <<"M","I","N","X">>
Inner == <<"I","n","n","e","r">>
Color == <<"C","o","l","o","r">>

Bound(t, digits, n) == [text |-> t, digits |-> digits, n |-> n]

\* the dimensions a member's array type is assembled from
MemberDims ==
    {<<Bound(<<"0">>, TRUE, 0), Bound(MAXX, FALSE, 0)>>,
     <<Bound(MINX, FALSE, 0), Bound(MAXX, FALSE, 0)>>,
     <<Bound(<<"0">>, TRUE, 0), Bound(<<"1">>, TRUE, 1)>>}

\* the type expressions of the member x of MyStruct
MemberShapes ==
    {Shape("array", d, b, FALSE, FALSE) :
        d \in SeqsUpTo(MemberDims, MaxDims) \ {<<>>},
        b \in {INT, Inner, Color}}
    \cup {Shape("basic", <<>>, b, FALSE, FALSE) : b \in {INT, Inner, Color}}
    \cup {Shape("string", <<(<<Bound(MAXX, FALSE, 0), Bound(MAXX, FALSE, 0)>>)>>,
                <<>>, FALSE, FALSE),
          Shape("badarray", <<(<<Bound(<<"5">>, TRUE, 5), Bound(<<"5">>, TRUE, 5)>>)>>,
                INT, FALSE, FALSE)}

InnerDefinition == <<"I","n","n","e","r"," ",":"," ","S","T","R","U","C","T"," ","a"," ",":"," ","I","N","T",";"," ","(","*","f","i","r","s","t","*",")"," ","E","N","D","_","S","T","R","U","C","T",";">>
ColorDefinition == <<"C","o","l","o","r"," ",":"," ","(","R","E","D",","," ","G","R","E","E","N"," ",":","="," ","2",")"," ",":","="," ","R","E","D",";">>
OpenCommentDefinition == <<"O","p","e","n"," ",":"," ","(","*"," ","n","e","v","e","r"," ","c","l","o","s","e","d">>

\* a type file: the definitions of Inner and Color (siblings), a definition
\* whose comment is not closed (open), and MyStruct with its member x
TypShape(siblings, open, member) ==
    [siblings |-> siblings, open |-> open, member |-> member]

TypShapes ==
    {TypShape(sb, FALSE, m) : sb \in BOOLEAN, m \in MemberShapes}
    \cup {TypShape(FALSE, TRUE, Shape("basic", <<>>, INT, FALSE, FALSE))}

TypText(sh) ==
    Concat(<<<<"T","Y","P","E"," ">>,
             IF sh.siblings
             THEN InnerDefinition \o <<" ">> \o ColorDefinition \o <<" ">>
             ELSE <<>>,
             <<"M","y","S","t","r","u","c","t"," ",":"," ","S","T","R","U","C","T"," ","x"," ",":"," ">>, ShapeText(sh.member),
             <<";"," ","E","N","D","_","S","T","R","U","C","T",";">>,
             IF sh.open THEN <<" ">> \o OpenCommentDefinition ELSE <<>>,
             <<" ","E","N","D","_","T","Y","P","E">>>>)

\* TYPE MyStruct : STRUCT x : ARRAY[0..MAXX] OF INT; END_STRUCT; END_TYPE
ScenarioC ==
    TypText(TypShape(FALSE, FALSE,
                     Shape("array",
                           <<(<<Bound(<<"0">>, TRUE, 0), Bound(MAXX, FALSE, 0)>>)>>,
                           INT, FALSE, FALSE)))

\* the constants of the library, as the variable files declared them
TypConstants == {<<>>, <<MAXX>>, <<MINX, MAXX>>}

TypInit ==
    /\ pc = "start"
    /\ typ_shape \in TypShapes
    /\ typ_content = TypText(typ_shape)
    /\ constants \in TypConstants
    /\ structures = <<>>
    /\ enumerations = <<>>
    /\ rows = <<>>
    /\ text = <<>> /\ replacements = <<>> /\ result = <<>> /\ pass = 0
    /\ TypeIdle /\ FunIdle /\ DeclIdle

\* parse_typ_file, and process() taking its structures and enumerations
\* into the library; when extract_type_definitions_improved does not
\* return, nothing after it happens
ParseTyp ==
    /\ pc = "start"
    /\ \E r \in {ParseTypFile(typ_content)} :
          IF r.hangs
          THEN /\ pc' = "hangs"
               /\ UNCHANGED <<structures, enumerations>>
          ELSE /\ pc' = "parsed"
               /\ structures' = r.structures
               /\ enumerations' = r.enumerations
    /\ UNCHANGED <<typ_shape, typ_content, rows, linkVars, typeVars, funVars,
                   declVars>>

\* the rows generate_structure_file writes for the members of a structure
MemberRows(struct) ==
    [k \in 1..Len(struct.members) |->
        LET member == struct.members[k]
        IN [name |-> HtmlEscape(member.name),
            member_type_html |->
               GetTypeLink(TypeToText(member.type), structures, enumerations,
                           constants, RelativePath),
            comment |-> IF member.comment1.some
                        THEN HtmlEscape(member.comment1.text) ELSE <<>>]]

\* generate_structure_file for the next structure of library.structures
GenerateStructureFile ==
    /\ pc = "parsed"
    /\ Len(rows) < Len(structures)
    /\ rows' = Append(rows, MemberRows(structures[Len(rows) + 1]))
    /\ UNCHANGED <<pc, typ_shape, typ_content, structures, enumerations,
                   linkVars, typeVars, funVars, declVars>>

TypNext == ParseTyp \/ GenerateStructureFile

TypSpec == TypInit /\ [][TypNext]_vars

----------------------------------------------------------------------------
(* Properties of the rendered member types *)

\* the name is declared as a structure or enumeration of the library
KnownType(name) == name \in Names(structures) \cup Names(enumerations)

\* the reference get_type_link writes for a known type
KnownTypeAnchor(name) ==
    TypeAnchor(<<>>,
               IF name \in Names(structures) THEN <<"S","t","r","u","c","t","u","r","e","s">>
               ELSE <<"E","n","u","m","e","r","a","t","i","o","n","s">>,
               name, RelativePath)

\* the symbolic bounds of an array type
SymbolicBounds(type) ==
    {type.dimensions[d].lower_bound.str :
        d \in {e \in 1..Len(type.dimensions) :
                 type.dimensions[e].is_constant_lower}}
    \cup {type.dimensions[d].upper_bound.str :
            d \in {e \in 1..Len(type.dimensions) :
                     type.dimensions[e].is_constant_upper}}

\* C6: the rendered type of a member ARRAY [dims] OF T with T a known
\* structure or enumeration holds the reference to T, behind the array
\* prefix
C6_ArrayBaseTypeLinked ==
    \A s \in 1..Len(rows) : \A k \in 1..Len(rows[s]) :
        LET type == structures[s].members[k].type
            member_type_html == rows[s][k].member_type_html
        IN (type.variant = "ArrayType" /\ KnownType(type.base_type)) =>
              /\ Contains(member_type_html, KnownTypeAnchor(type.base_type))
              /\ StartsWithAt(member_type_html, <<"A","r","r","a","y"," ","[">>, 0)

\* C7: Scenario C parses to the one structure MyStruct with the one member
\* x, an array of INT with the dimension (0, "MAXX") whose upper bound alone
\* is symbolic; and in the rendered type of every array member each
\* symbolic bound that names a known constant is a reference to it
C7_ScenarioC ==
    /\ (pc = "parsed" /\ typ_content = ScenarioC) =>
          /\ structures =
               <<Structure(<<"M","y","S","t","r","u","c","t">>,
                           <<Variable("Var", <<"x">>,
                                ArrayType(INT,
                                   <<ArrayDimension(IntValue(0), StrValue(MAXX),
                                                    FALSE, TRUE)>>),
                                FALSE, None, None, None, None, None, FALSE)>>,
                           None)>>
          /\ enumerations = <<>>
    /\ \A s \in 1..Len(rows) : \A k \in 1..Len(rows[s]) :
          LET type == structures[s].members[k].type
          IN type.variant = "ArrayType" =>
                \A b \in SymbolicBounds(type) \cap ConstantSet :
                   Contains(rows[s][k].member_type_html,
                            ConstantLink(b, RelativePath))

\* C7 witness: Scenario C parsed with MAXX a constant of the library, and
\* the rendered type of x holding the reference to MAXX
C7_Witness ==
    /\ pc = "parsed"
    /\ typ_content = ScenarioC
    /\ constants = <<MAXX>>
    /\ Len(structures) = 1
    /\ Len(rows) = 1
    /\ rows[1][1].member_type_html
         = <<"I","N","T","[","0",".",".">> \o ConstantLink(MAXX, RelativePath) \o <<"]">>

----------------------------------------------------------------------------
(* process(): the library declaration file *)

MaxUnits == 3

\* the declaration units a .fun file is assembled from: a function block
\* and a function that parse, a function without return type, and a
\* function block with a dimension that is no lower..upper pair
UnitTexts ==
    [good_fb |-> <<"F","U","N","C","T","I","O","N","_","B","L","O","C","K"," ","F","B","1"," ","(","*","c","o","u","n","t","s","*",")"," ","V","A","R","_","I","N","P","U","T"," ","a"," ",":"," ","I","N","T",";"," ","E","N","D","_","V","A","R"," ","E","N","D","_","F","U","N","C","T","I","O","N","_","B","L","O","C","K">>,
     good_func |-> <<"F","U","N","C","T","I","O","N"," ","F","1"," ",":"," ","I","N","T"," ","V","A","R","_","I","N","P","U","T"," ","a"," ",":"," ","I","N","T",";"," ","E","N","D","_","V","A","R"," ","E","N","D","_","F","U","N","C","T","I","O","N">>,
     bad_func |-> <<"F","U","N","C","T","I","O","N"," ","F","2"," ","V","A","R","_","I","N","P","U","T"," ","a"," ",":"," ","I","N","T",";"," ","E","N","D","_","V","A","R"," ","E","N","D","_","F","U","N","C","T","I","O","N">>,
     bad_fb |-> <<"F","U","N","C","T","I","O","N","_","B","L","O","C","K"," ","F","B","2"," ","V","A","R"," ","a"," ",":"," ","A","R","R","A","Y","[","5","]"," ","O","F"," ","I","N","T",";"," ","E","N","D","_","V","A","R"," ","E","N","D","_","F","U","N","C","T","I","O","N","_","B","L","O","C","K">>]

UnitKinds == {"good_fb", "good_func", "bad_func", "bad_fb"}

FunText(units) ==
    Concat([k \in 1..Len(units) |-> UnitTexts[units[k]] \o <<"\n", "\n">>])

\* Path(file_path).parent.name
LibraryFolderName == <<"M","y","L","i","b">>

NoLibrary == [name |-> <<>>, functions |-> <<>>, function_blocks |-> <<>>]

\* the result dictionary process() starts from
InitialResult == [success |-> FALSE, error |-> "None"]

FunInit ==
    /\ pc = "start"
    /\ fun_units \in SeqsUpTo(UnitKinds, MaxUnits)
    /\ fun_content = FunText(fun_units)
    /\ fun_parser = NoLibrary
    /\ library = NoLibrary
    /\ process_result = InitialResult
    /\ LinkIdle /\ TypeIdle /\ TypIdle /\ DeclIdle

\* process() from its collections to the end of the .fun step:
\* parse_fun_file fills the parser's library; an exception of a unit's
\* parser leaves parse_fun_file and process() returns its result with the
\* error set, otherwise library = libFileParser.get_library()
ProcessFun ==
    /\ pc = "start"
    /\ \E r \in {ParseFunFile(fun_content)} :
          /\ fun_parser' = [name |-> LibraryFolderName,
                            functions |-> r.functions,
                            function_blocks |-> r.function_blocks]
          /\ IF r.raised
             THEN /\ process_result' =
                        [process_result EXCEPT
                           !.error = "Error parsing library declaration file (.fun)"]
                  /\ pc' = "returned"
                  /\ UNCHANGED library
             ELSE /\ library' = fun_parser'
                  /\ pc' = "fun_parsed"
                  /\ UNCHANGED process_result
    /\ UNCHANGED <<fun_units, fun_content, linkVars, typeVars, typVars,
                   declVars>>

FunNext == ProcessFun

FunSpec == FunInit /\ [][FunNext]_vars

----------------------------------------------------------------------------
(* Properties of the .fun step *)

\* the units of the file that their own parser accepts, parsed
UnitsThatParse(kind) ==
    Bind(ParseBlocks(fun_content), LAMBDA blocks :
    Bind([k \in 1..Len(blocks) |-> ParseBlock(blocks[k])], LAMBDA parsed_blocks :
       Concat([k \in 1..Len(blocks) |->
                 IF parsed_blocks[k].kind = kind /\ ~parsed_blocks[k].raised
                 THEN <<parsed_blocks[k][kind]>> ELSE <<>>])))

\* C1: a unit that fails to parse is skipped alone: the build goes on and
\* the library holds every unit of the file that parses
C1_FailingUnitSkipped ==
    pc # "start" =>
        /\ pc = "fun_parsed"
        /\ process_result.error = "None"
        /\ library.functions = UnitsThatParse("function")
        /\ library.function_blocks = UnitsThatParse("function_block")

----------------------------------------------------------------------------
(* parse_variable_section applied to section bodies *)

MaxEntries == 2

\* an entry of a section body: its kind and the texts of the comments that
\* follow its semicolon
Entry(kind, comments) == [kind |-> kind, comments |-> comments]

CommentTexts == <<<<"c","1">>, <<"c","2">>, <<"c","3">>, <<"c","4">>>>

\* the text of a comment that has the shape of an entry
EntryLikeComment == <<"z"," ",":"," ","I","N","T",";">>

\* the entries a body is assembled from: NAME : INT; followed by zero to
\* four comments, the fourth plain or entry-like; NAME : ARRAY[-5..5] OF INT;
\* NAME : ARRAY[5] OF INT; and NAME INT; which has no colon
Entries ==
    {Entry("plain", SubSeq(CommentTexts, 1, n)) : n \in 0..4}
    \cup {Entry("plain", SubSeq(CommentTexts, 1, 3) \o <<EntryLikeComment>>),
          Entry("signed", <<>>), Entry("baddim", <<>>),
          Entry("nocolon", <<>>)}

SectShapes == SeqsUpTo(Entries, MaxEntries)

\* the name of the entry at position k: v1, v2, ...
EntryName(k) == <<"v">> \o IntToText(k)

EntryText(e, k) ==
    Concat(<<EntryName(k),
             CASE e.kind = "plain" -> <<" ",":"," ","I","N","T",";">>
               [] e.kind = "signed" -> <<" ",":"," ","A","R","R","A","Y","[","-","5",".",".","5","]"," ","O","F"," ","I","N","T",";">>
               [] e.kind = "baddim" -> <<" ",":"," ","A","R","R","A","Y","[","5","]"," ","O","F"," ","I","N","T",";">>
               [] e.kind = "nocolon" -> <<" ","I","N","T",";">>,
             Concat([c \in 1..Len(e.comments) |->
                       <<" ","(","*">> \o e.comments[c] \o <<"*",")">>]),
             <<"\n">>>>)

SectText(sh) == Concat([k \in 1..Len(sh) |-> EntryText(sh[k], k)])

SectInit ==
    /\ pc = "start"
    /\ sect_shape \in SectShapes
    /\ sect_content = SectText(sect_shape)
    /\ sect_result = [raised |-> FALSE, variables |-> <<>>]
    /\ LinkIdle /\ TypeIdle /\ TypIdle /\ FunIdle /\ UnitIdle /\ ExtIdle
    /\ LateIdle

\* variables = parse_variable_section(section, Var); raised: the ValueError
\* of parse_array_dimension leaves the call
ParseSection ==
    /\ pc = "start"
    /\ sect_result' = ParseVariableSection(sect_content, "Var", FALSE)
    /\ pc' = IF sect_result'.raised THEN "raised" ELSE "returned"
    /\ UNCHANGED <<sect_shape, sect_content, linkVars, typeVars, typVars,
                   funVars, unitVars, extVars, lateVars>>

SectNext == ParseSection

SectSpec == SectInit /\ [][SectNext]_vars

----------------------------------------------------------------------------
(* Properties of parse_variable_section *)

\* the positions in the returned list of the variables that bear the name
\* of the entry at position k
Returned(k) ==
    {j \in 1..Len(sect_result.variables) :
        sect_result.variables[j].name = EntryName(k)}

\* comment1, comment2 or comment3 of a variable
CommentField(v, c) ==
    CASE c = 1 -> v.comment1 [] c = 2 -> v.comment2 [] c = 3 -> v.comment3

\* the names of the plain entries of the body, in source order
PlainNames ==
    Concat([k \in 1..Len(sect_shape) |->
              IF sect_shape[k].kind = "plain" THEN <<EntryName(k)>>
              ELSE <<>>])

\* the names in the returned list that are names of plain entries, in the
\* order of the list
ReturnedPlainNames ==
    Concat([j \in 1..Len(sect_result.variables) |->
              IF \E k \in 1..Len(sect_shape) :
                    /\ sect_shape[k].kind = "plain"
                    /\ sect_result.variables[j].name = EntryName(k)
              THEN <<sect_result.variables[j].name>> ELSE <<>>])

\* C12: an entry NAME : ARRAY[-5..5] OF INT; is returned as a variable whose
\* type is the array of INT with the dimension (-5, 5), both bounds numbers
\* and both symbolic flags false
C12_SignedBoundAccepted ==
    pc = "returned" =>
        \A k \in 1..Len(sect_shape) :
           sect_shape[k].kind = "signed" =>
              \E j \in Returned(k) :
                 sect_result.variables[j].type =
                    ArrayType(INT, <<ArrayDimension(IntValue(-5), IntValue(5),
                                                   FALSE, FALSE)>>)

\* C13: the first three comments behind an entry's semicolon are its
\* comment1, comment2 and comment3 in that order, absent ones stay empty; a
\* fourth comment is the comment field of no variable and adds no variable
\* to the returned list
C13_CommentsInOrder ==
    pc = "returned" =>
        /\ \A k \in 1..Len(sect_shape) :
              sect_shape[k].kind = "plain" =>
                 \E j \in Returned(k) : \A c \in 1..3 :
                    CommentField(sect_result.variables[j], c) =
                       IF c <= Len(sect_shape[k].comments)
                       THEN Some(sect_shape[k].comments[c]) ELSE None
        /\ \A j \in 1..Len(sect_result.variables) :
              /\ \E k \in 1..Len(sect_shape) :
                    sect_result.variables[j].name = EntryName(k)
              /\ \A k \in 1..Len(sect_shape) :
                    \A d \in 4..Len(sect_shape[k].comments) : \A c \in 1..3 :
                       CommentField(sect_result.variables[j], c)
                          # Some(sect_shape[k].comments[d])

\* C14: parse_variable_section returns for every body, and the plain entries
\* before and after an entry of another shape are returned in source order
C14_MalformedEntrySkipped ==
    pc # "start" =>
        /\ pc = "returned"
        /\ ReturnedPlainNames = PlainNames

----------------------------------------------------------------------------
(* FunctionBlockParser.parse and FunctionParser.parse applied to one *)
(* declaration unit, and parse_fun_file applied to the file that holds it *)

MaxSections == 2

Roles == {"Input", "Output", "InOut", "Constant", "Local"}

\* the keyword suffix of a role's section: VAR_INPUT ... plain VAR
RoleSuffix(role) ==
    CASE role = "Input" -> <<"_","I","N","P","U","T">>
      [] role = "Output" -> <<"_","O","U","T","P","U","T">>
      [] role = "InOut" -> <<"_","I","N","_","O","U","T">>
      [] role = "Constant" -> <<"_","C","O","N","S","T","A","N","T">>
      [] role = "Local" -> <<>>

\* a variable section of a unit: its role and whether it carries RETAIN
Section(role, retain) == [role |-> role, retain |-> retain]

\* a unit: its opening keyword, whether its description names the other
\* keyword, its sections, and whether it is the text of Scenario A
UnitShape(keyword, mention, sections, scenario) ==
    [keyword |-> keyword, mention |-> mention, sections |-> sections,
     scenario |-> scenario]

\* FUNCTION_BLOCK FB1 (*desc*) VAR_INPUT x : INT; (*c1*) END_VAR
\* END_FUNCTION_BLOCK
ScenarioA ==
    UnitShape("FUNCTION_BLOCK", FALSE, <<Section("Input", FALSE)>>, TRUE)

UnitShapes ==
    {UnitShape("FUNCTION_BLOCK", FALSE, s, FALSE) :
        s \in SeqsUpTo({Section(r, t) : r \in Roles, t \in BOOLEAN},
                       MaxSections)}
    \cup {UnitShape("FUNCTION", FALSE, s, FALSE) :
            s \in SeqsUpTo({Section(r, FALSE) : r \in Roles}, MaxSections)}
    \cup {UnitShape(k, TRUE, <<Section("Input", FALSE)>>, FALSE) :
            k \in {"FUNCTION_BLOCK", "FUNCTION"}}
    \cup {ScenarioA}

\* the name of the variable of section k
SectionVarName(sh, k) == IF sh.scenario THEN <<"x">> ELSE EntryName(k)

SectionText(sh, k) ==
    Concat(<<<<"V","A","R">>, RoleSuffix(sh.sections[k].role), <<" ">>,
             IF sh.sections[k].retain THEN <<"R","E","T","A","I","N"," ">> ELSE <<>>,
             SectionVarName(sh, k), <<" ",":"," ","I","N","T",";">>,
             IF sh.scenario THEN <<" ","(","*","c","1","*",")">> ELSE <<>>,
             <<" ","E","N","D","_","V","A","R"," ">>>>)

UnitText(sh) ==
    Concat(<<IF sh.keyword = "FUNCTION_BLOCK"
             THEN <<"F","U","N","C","T","I","O","N","_","B","L","O","C","K"," ","F","B","1"," ">> ELSE <<"F","U","N","C","T","I","O","N"," ","F","1"," ",":"," ","I","N","T"," ">>,
             IF ~sh.mention THEN <<"(","*","d","e","s","c","*",")"," ">>
             ELSE IF sh.keyword = "FUNCTION_BLOCK"
             THEN <<"(","*","s","e","e"," ","F","U","N","C","T","I","O","N"," ","F","9","*",")"," ">>
             ELSE <<"(","*","s","e","e"," ","F","U","N","C","T","I","O","N","_","B","L","O","C","K"," ","F","B","9","*",")"," ">>,
             Concat([k \in 1..Len(sh.sections) |-> SectionText(sh, k)]),
             IF sh.keyword = "FUNCTION_BLOCK"
             THEN <<"E","N","D","_","F","U","N","C","T","I","O","N","_","B","L","O","C","K">> ELSE <<"E","N","D","_","F","U","N","C","T","I","O","N">>>>)

NoUnit ==
    [kind |-> "none", raised |-> FALSE, function_block |-> NoFunctionBlock,
     function |-> NoFunction]

UnitInit ==
    /\ pc = "start"
    /\ unit_shape \in UnitShapes
    /\ unit_content = UnitText(unit_shape)
    /\ unit_result = NoUnit
    /\ unit_blocks = <<>>
    /\ LinkIdle /\ TypeIdle /\ TypIdle /\ FunIdle /\ SectIdle /\ ExtIdle
    /\ LateIdle

\* function_block = FunctionBlockParser().parse(content)
DoFunctionBlockParse ==
    /\ pc = "start"
    /\ unit_shape.keyword = "FUNCTION_BLOCK"
    /\ \E r \in {FunctionBlockParse(unit_content)} :
          unit_result' = [kind |-> "function_block", raised |-> r.raised,
                          function_block |-> r.function_block,
                          function |-> NoFunction]
    /\ pc' = "parsed"
    /\ UNCHANGED <<unit_shape, unit_content, unit_blocks, linkVars, typeVars,
                   typVars, funVars, sectVars, extVars, lateVars>>

\* function = FunctionParser().parse(content)
DoFunctionParse ==
    /\ pc = "start"
    /\ unit_shape.keyword = "FUNCTION"
    /\ \E r \in {FunctionParse(unit_content)} :
          unit_result' = [kind |-> "function", raised |-> r.raised,
                          function_block |-> NoFunctionBlock,
                          function |-> r.function]
    /\ pc' = "parsed"
    /\ UNCHANGED <<unit_shape, unit_content, unit_blocks, linkVars, typeVars,
                   typVars, funVars, sectVars, extVars, lateVars>>

\* the loop of parse_fun_file over parse_blocks(content): what each block
\* was parsed as, up to and with the first block whose parser raised
ClassifiedBlocks(content) ==
    Bind(ParseBlocks(content), LAMBDA blocks :
    Bind([k \in 1..Len(blocks) |-> ParseBlock(blocks[k])], LAMBDA parsed_blocks :
    Bind({k \in 1..Len(blocks) : parsed_blocks[k].raised}, LAMBDA failing :
       IF failing = {} THEN parsed_blocks
       ELSE SubSeq(parsed_blocks, 1,
                   CHOOSE k \in failing : \A j \in failing : k <= j))))

\* parse_fun_file on the file that holds the unit
ParseUnitFile ==
    /\ pc = "parsed"
    /\ unit_blocks' = ClassifiedBlocks(unit_content)
    /\ pc' = "classified"
    /\ UNCHANGED <<unit_shape, unit_content, unit_result, linkVars, typeVars,
                   typVars, funVars, sectVars, extVars, lateVars>>

UnitNext == DoFunctionBlockParse \/ DoFunctionParse \/ ParseUnitFile

UnitSpec == UnitInit /\ [][UnitNext]_vars

----------------------------------------------------------------------------
(* Properties of the unit parsers *)

\* the list of a function block or function that holds the variables of a
\* role
RoleList(unit, role) ==
    CASE role = "Input" -> unit.var_input
      [] role = "Output" -> unit.var_output
      [] role = "InOut" -> unit.var_in_out
      [] role = "Constant" -> unit.var_constant
      [] role = "Local" -> unit.var

\* the names of the variables of a list
VariableNames(variables) == {variables[j].name : j \in 1..Len(variables)}

C16_RetainStamped ==
    (pc # "start" /\ unit_shape.keyword = "FUNCTION_BLOCK") =>
        \A k \in 1..Len(unit_shape.sections) : \A role \in Roles :
           \A j \in 1..Len(RoleList(unit_result.function_block, role)) :
              LET v == RoleList(unit_result.function_block, role)[j]
              IN v.name = SectionVarName(unit_shape, k) =>
                    v.retain = unit_shape.sections[k].retain

\* C17: every variable in the Input, InOut and Local list of a function was
\* declared in a section of that role, so the variable of a VAR_OUTPUT or
\* VAR_CONSTANT section is in none of the three lists
C17_FunctionRolesOnly ==
    (pc # "start" /\ unit_shape.keyword = "FUNCTION") =>
        \A k \in 1..Len(unit_shape.sections) :
           \A role \in {"Input", "InOut", "Local"} :
              SectionVarName(unit_shape, k)
                 \in VariableNames(RoleList(unit_result.function, role))
              => unit_shape.sections[k].role = role

\* C18: parse_fun_file parses a unit opened by FUNCTION_BLOCK as a function
\* block and a unit opened by the bare FUNCTION as a function, also when the
\* other keyword stands in the unit's description
C18_ClassifiedByOpeningKeyword ==
    pc = "classified" =>
        /\ Len(unit_blocks) = 1
        /\ unit_blocks[1].kind =
              IF unit_shape.keyword = "FUNCTION_BLOCK" THEN "function_block"
              ELSE "function"

----------------------------------------------------------------------------
(* extract_type_definitions_improved applied to the text of a TYPE block *)

MaxDefs == 2

\* the kinds of definition of a TYPE block: a structure, enumerations
\* without and with a default, with a parenthesis inside a comment, with an
\* asterisk before the closing parenthesis, an enumeration whose
\* parenthesis is never closed, a name whose parenthesis opens a comment
\* that is never closed, and an alias with a comment before its type
WellFormedKinds == {"struct", "enum", "enum_default"}

EnumKinds ==
    {"enum", "enum_default", "enum_open_in_comment", "enum_close_in_comment",
     "enum_star"}

CommentFirstKinds == {"open_comment", "alias_comment"}

DefKinds ==
    WellFormedKinds \cup EnumKinds \cup {"unbalanced"} \cup CommentFirstKinds

BlockShapes == SeqsUpTo(DefKinds, MaxDefs) \ {<<>>}

\* the text of definition k of a block
DefText(kind, k) ==
    CASE kind = "struct" ->
            Concat(<<<<"S">>, IntToText(k), <<" ",":"," ","S","T","R","U","C","T"," ","a"," ",":"," ","I","N","T",";"," ","E","N","D","_","S","T","R","U","C","T",";">>>>)
      [] kind = "enum" -> Concat(<<<<"E">>, IntToText(k), <<" ",":"," ","(","A",","," ","B",")",";">>>>)
      [] kind = "enum_default" ->
            Concat(<<<<"E">>, IntToText(k), <<" ",":"," ","(","A",","," ","B",")"," ",":","="," ","A",";">>>>)
      [] kind = "enum_open_in_comment" ->
            Concat(<<<<"E">>, IntToText(k), <<" ",":"," ","(","A",","," ","(","*"," ","("," ","*",")"," ","B",")",";">>>>)
      [] kind = "enum_close_in_comment" ->
            Concat(<<<<"E">>, IntToText(k), <<" ",":"," ","(","A"," ","(","*"," ",")"," ","*",")",","," ","B",")",";">>>>)
      [] kind = "enum_star" -> Concat(<<<<"E">>, IntToText(k), <<" ",":"," ","(","A","*",")",";">>>>)
      [] kind = "unbalanced" -> Concat(<<<<"B">>, IntToText(k), <<" ",":"," ","(","A",","," ","B",";">>>>)
      [] kind = "open_comment" ->
            Concat(<<<<"A">>, IntToText(k), <<" ",":"," ","(","*"," ","o","p","e","n">>>>)
      [] kind = "alias_comment" ->
            Concat(<<<<"A">>, IntToText(k), <<" ",":"," ","(","*"," ","n","o","t","e"," ","*",")"," ","I","N","T",";">>>>)

BlockText(sh) ==
    Concat([k \in 1..Len(sh) |-> DefText(sh[k], k) \o <<"\n">>])

ExtInit ==
    /\ pc = "start"
    /\ block_shape \in BlockShapes
    /\ block_content = BlockText(block_shape)
    /\ block_result = <<>>
    /\ LinkIdle /\ TypeIdle /\ TypIdle /\ FunIdle /\ SectIdle /\ UnitIdle
    /\ LateIdle

\* definitions = self.extract_type_definitions_improved(type_block)
ExtractDefinitions ==
    /\ pc = "start"
    /\ \E r \in {ExtractTypeDefinitionsImproved(block_content)} :
          /\ block_result' = r.definitions
          /\ pc' = IF r.hangs THEN "hangs" ELSE "returned"
    /\ UNCHANGED <<block_shape, block_content, linkVars, typeVars, typVars,
                   funVars, sectVars, unitVars, lateVars>>

ExtNext == ExtractDefinitions

ExtSpec == ExtInit /\ [][ExtNext]_vars

----------------------------------------------------------------------------
(* Properties of extract_type_definitions_improved *)

\* C19: a well-formed structure or enumeration that follows an enumeration
\* candidate whose parenthesis is never balanced, in a block whose other
\* definitions are well formed, is still extracted
C19_ResumesAfterUnbalanced ==
    (pc # "start"
     /\ \A k \in 1..Len(block_shape) :
           block_shape[k] \in WellFormedKinds \cup {"unbalanced"}) =>
        /\ pc = "returned"
        /\ \A k \in 1..Len(block_shape) : \A j \in (k + 1)..Len(block_shape) :
              (block_shape[k] = "unbalanced"
               /\ block_shape[j] \in WellFormedKinds) =>
                 \E i \in 1..Len(block_result) :
                    block_result[i] = DefText(block_shape[j], j)

RECURSIVE DepthZeroClose(_, _, _, _)
\* the position of the first ")" outside any comment that brings the depth
\* back to zero, a comment being the text between a "(*" and the next "*)";
\* -1 if there is none
DepthZeroClose(unit, p, depth, in_comment) ==
    IF p >= Len(unit) THEN -1
    ELSE IF in_comment
    THEN IF StartsWithAt(unit, <<"*",")">>, p)
         THEN DepthZeroClose(unit, p + 2, depth, FALSE)
         ELSE DepthZeroClose(unit, p + 1, depth, TRUE)
    ELSE IF StartsWithAt(unit, <<"(","*">>, p)
    THEN DepthZeroClose(unit, p + 2, depth, TRUE)
    ELSE IF unit[p + 1] = "("
    THEN DepthZeroClose(unit, p + 1, depth + 1, FALSE)
    ELSE IF unit[p + 1] = ")"
    THEN IF depth = 1 THEN p
         ELSE DepthZeroClose(unit, p + 1, depth - 1, FALSE)
    ELSE DepthZeroClose(unit, p + 1, depth, FALSE)

\* the enumeration unit at the head of a text: up to its depth-zero ")",
\* extended by the optional := default and the ;
EnumUnit(unit) ==
    LET close == DepthZeroClose(unit, 0, 0, FALSE)
        after == Slice(unit, close + 1, Len(unit))
        rest == LStrip(after)
        default_match == ReMatch(DefaultPattern, 1, rest)
        semi_match == ReMatch(SemiPattern, 0, rest)
    IN Slice(unit, 0,
             IF default_match.ok
             THEN close + 1 + Len(after) - Len(rest) + default_match.end
             ELSE IF semi_match.ok
             THEN close + 1 + Len(after) - Len(rest) + semi_match.end
             ELSE close + 1)

\* C20: in a block of enumeration units, every unit is extracted up to the
\* first ")" outside any comment that brings the depth back to zero,
\* extended by the optional := default and the ;, whatever parentheses its
\* comments hold
C20_CommentsSuspendDepth ==
    (pc # "start"
     /\ \A k \in 1..Len(block_shape) : block_shape[k] \in EnumKinds) =>
        /\ pc = "returned"
        /\ block_result =
              [k \in 1..Len(block_shape) |->
                 EnumUnit(DefText(block_shape[k], k))]

----------------------------------------------------------------------------
(* EnumerationParser.parse applied to one enumeration definition *)

MaxLines == 2

\* the entries between the parentheses of a definition, one per line: a
\* literal that is plain, valued, negatively valued, followed by one or by
\* three comments, or named as the first literal; a line that is one
\* comment; literals commented out over three lines; a literal after a
\* comment on its line, and a literal between two comments on its line
LiteralKinds ==
    {"plain", "valued", "negative", "commented", "three_comments",
     "duplicate", "lead_comment", "wrapped"}

CommentKinds == {"comment_only", "commented_out"}

EntryKinds == LiteralKinds \cup CommentKinds

\* a definition: its entries, whether a default follows the closing
\* parenthesis, and whether it is the definition of Scenario B
EnumShape(entries, default, scenario) ==
    [entries |-> entries, default |-> default, scenario |-> scenario]

\* MyEnum : (A, B := 5, C) := B;
ScenarioB == EnumShape(<<"plain", "valued", "plain">>, TRUE, TRUE)

ScenarioBText == <<"M","y","E","n","u","m"," ",":"," ","(","A",","," ","B"," ",":","="," ","5",","," ","C",")"," ",":","="," ","B",";">>

\* TYPE MyEnum : (A, B := 5, C) := B; END_TYPE
ScenarioBFile == Concat(<<<<"T","Y","P","E"," ">>, ScenarioBText, <<" ","E","N","D","_","T","Y","P","E">>>>)

EnumShapes ==
    {EnumShape(e, d, FALSE) :
        e \in SeqsUpTo(EntryKinds, MaxLines), d \in BOOLEAN}
    \cup {ScenarioB}

\* the name of the literal of entry k
LiteralName(kind, k) ==
    IF kind = "duplicate" THEN <<"L","1">> ELSE <<"L">> \o IntToText(k)

\* the text of entry k, without its comma
EntryBody(kind, k) ==
    CASE kind \in {"plain", "duplicate"} -> LiteralName(kind, k)
      [] kind = "valued" -> LiteralName(kind, k) \o <<" ",":","="," ","5">>
      [] kind = "negative" -> LiteralName(kind, k) \o <<" ",":","="," ","-","1">>
      [] kind \in {"commented", "three_comments", "lead_comment", "wrapped"} ->
            LiteralName(kind, k)

\* the line or lines of entry k; last: no comma follows the literal
EntryLines(kind, k, last) ==
    LET comma == IF last THEN <<>> ELSE <<",">>
    IN CASE kind = "comment_only" -> <<" "," ","(","*"," ","n","o","t","e"," ","*",")","\n">>
         [] kind = "commented_out" -> <<" "," ","(","*"," ","X","1",",","\n"," "," ","X","2",",","\n"," "," ","*",")","\n">>
         [] kind = "commented" ->
               Concat(<<<<" "," ">>, EntryBody(kind, k), comma, <<" ","(","*","c","1","*",")","\n">>>>)
         [] kind = "three_comments" ->
               Concat(<<<<" "," ">>, EntryBody(kind, k), comma,
                        <<" ","(","*","c","1","*",")"," ","(","*","c","2","*",")"," ","(","*","c","3","*",")","\n">>>>)
         [] kind = "lead_comment" ->
               Concat(<<<<" "," ","(","*","c","1","*",")"," ">>, EntryBody(kind, k), comma, <<"\n">>>>)
         [] kind = "wrapped" ->
               Concat(<<<<" "," ","(","*","c","1","*",")"," ">>, EntryBody(kind, k), comma,
                        <<" ","(","*","c","2","*",")","\n">>>>)
         [] OTHER -> Concat(<<<<" "," ">>, EntryBody(kind, k), comma, <<"\n">>>>)

EnumText(sh) ==
    IF sh.scenario THEN ScenarioBText
    ELSE Concat(<<<<"E"," ",":"," ","(","\n">>,
                  Concat([k \in 1..Len(sh.entries) |->
                            EntryLines(sh.entries[k], k,
                                       k = Len(sh.entries))]),
                  IF sh.default THEN <<")"," ",":","="," ","L","1",";">> ELSE <<")",";">>>>)

EnumInit ==
    /\ pc = "start"
    /\ enum_shape \in EnumShapes
    /\ enum_content = EnumText(enum_shape)
    /\ enum_result = NoEnumeration
    /\ LinkIdle /\ TypeIdle /\ TypIdle /\ FunIdle
    /\ SectIdle /\ UnitIdle /\ ExtIdle /\ ProcIdle

\* enumeration = EnumerationParser().parse(definition)
ParseEnumeration ==
    /\ pc = "start"
    /\ \E r \in {EnumerationParse(enum_content)} :
          /\ enum_result' = r.enumeration
          /\ pc' = IF r.raised THEN "raised" ELSE "returned"
    /\ UNCHANGED <<enum_shape, enum_content, linkVars, typeVars, typVars,
                   funVars, sectVars, unitVars, extVars, procVars>>

EnumNext == ParseEnumeration

EnumSpec == EnumInit /\ [][EnumNext]_vars

----------------------------------------------------------------------------
(* Properties of EnumerationParser.parse *)

\* the names of the literals of a definition that stand outside a comment,
\* in source order
LiveNames(sh) ==
    IF sh.scenario THEN <<<<"A">>, <<"B">>, <<"C">>>>
    ELSE Concat([k \in 1..Len(sh.entries) |->
                   IF sh.entries[k] \in LiteralKinds
                   THEN <<LiteralName(sh.entries[k], k)>> ELSE <<>>])

\* the names of the parsed literals, in order
ParsedNames == [k \in 1..Len(enum_result.literals) |-> enum_result.literals[k].name]

\* C21: only the lines that are wholly comment are removed: the parsed
\* literals are the literals that stand outside a comment, those on a line
\* that also holds a comment included, and no commented-out literal
C21_OnlyCommentLinesRemoved ==
    (pc # "start"
     /\ \A k \in 1..Len(enum_shape.entries) :
           enum_shape.entries[k] # "negative") =>
        /\ pc = "returned"
        /\ ParsedNames = LiveNames(enum_shape)

\* the EnumLiteral declared by entry k
DeclaredLiteral(kind, k) ==
    EnumLiteral(LiteralName(kind, k),
                CASE kind = "valued" -> Some(<<"5">>)
                  [] kind = "negative" -> Some(<<"-","1">>)
                  [] OTHER -> None,
                IF kind \in {"commented", "three_comments"}
                THEN Some(<<"c","1">>) ELSE None,
                IF kind = "three_comments" THEN Some(<<"c","2">>) ELSE None,
                IF kind = "three_comments" THEN Some(<<"c","3">>) ELSE None)

\* the kinds of entry with a literal and every comment after it
TrailingKinds ==
    {"plain", "valued", "negative", "commented", "three_comments",
     "duplicate"}

\* C22: a definition whose comments follow their literal parses to exactly
\* one EnumLiteral per declared literal, in source order, with its value and
\* comments, duplicates kept, and the name after the closing parenthesis as
\* default; Scenario B, alone and from its TYPE file, parses to MyEnum with
\* default B and the literals A, B = 5, C
C22_OneLiteralPerDeclaration ==
    (pc # "start"
     /\ \A k \in 1..Len(enum_shape.entries) :
           enum_shape.entries[k] \in TrailingKinds) =>
        /\ pc = "returned"
        /\ IF enum_shape.scenario
           THEN /\ enum_result =
                      Enumeration(<<"M","y","E","n","u","m">>,
                                  <<EnumLiteral(<<"A">>, None, None, None, None),
                                    EnumLiteral(<<"B">>, Some(<<"5">>), None, None, None),
                                    EnumLiteral(<<"C">>, None, None, None, None)>>,
                                  None, Some(<<"B">>))
                /\ ParseTypFile(ScenarioBFile).enumerations = <<enum_result>>
           ELSE /\ enum_result.literals =
                      [k \in 1..Len(enum_shape.entries) |->
                         DeclaredLiteral(enum_shape.entries[k], k)]
                /\ enum_result.default_value =
                      IF enum_shape.default THEN Some(<<"L","1">>) ELSE None

\* C29: extract_type_definitions_improved terminates on every block, also
\* on a block in which name : ( opens a comment that is never closed and on
\* one in which name : is followed by a closed comment and no parenthesis:
\* no iteration of its outer loop leaves the remaining text as it was
C29_ExtractionTerminates == pc # "hangs"


----------------------------------------------------------------------------
(* LibraryProcessor.process, BRLibToMarkdownApp.start and the CLI's main *)

\* how many .typ files and how many .var files a library folder holds
MaxFiles == 2

\* str.lower()
LowerOf(c) ==
    CASE c = "A" -> "a" [] c = "B" -> "b" [] c = "C" -> "c" [] c = "D" -> "d"
      [] c = "E" -> "e" [] c = "F" -> "f" [] c = "G" -> "g" [] c = "H" -> "h"
      [] c = "I" -> "i" [] c = "J" -> "j" [] c = "K" -> "k" [] c = "L" -> "l"
      [] c = "M" -> "m" [] c = "N" -> "n" [] c = "O" -> "o" [] c = "P" -> "p"
      [] c = "Q" -> "q" [] c = "R" -> "r" [] c = "S" -> "s" [] c = "T" -> "t"
      [] c = "U" -> "u" [] c = "V" -> "v" [] c = "W" -> "w" [] c = "X" -> "x"
      [] c = "Y" -> "y" [] c = "Z" -> "z" [] OTHER -> c

ToLower(s) == [i \in 1..Len(s) |-> LowerOf(s[i])]

\* the resolved library path and output path of a run
LibraryPath == <<"/","w","s","/","M","y","L","i","b">>
OutputPath == <<"/","w","s","/","o","u","t">>

\* the dataclass Library with its defaults; text fields are None or Some
Library(name, version, type, description, header_file_name, file_version, files, dependency_libraries, functions, function_blocks) ==
    [name |-> name, description |-> description, version |-> version,
     type |-> type, header_file_name |-> header_file_name,
     file_version |-> file_version, files |-> files,
     dependency_libraries |-> dependency_libraries,
     functions |-> functions, function_blocks |-> function_blocks,
     structures |-> <<>>, enumerations |-> <<>>, constants |-> <<>>]

\* Library()
NewLibrary ==
    Library(<<>>, <<"1",".","0",".","0">>, None, None, None, None, <<>>, <<>>, <<>>, <<>>)

\* the content of the one .fun file, by kind: two units that parse, a file
\* whose second unit is a function without return type, and a file that
\* cannot be opened for reading
FunFileKinds == {"units", "no_return", "unreadable"}

FunFileText(kind) ==
    CASE kind = "units" -> FunText(<<"good_fb", "good_func">>)
      [] kind = "no_return" -> FunText(<<"good_func", "bad_func">>)
      [] OTHER -> <<>>

\* str(e) of what open() raises for a file without read permission
PermissionDenied(path) ==
    Concat(<<<<"[","E","r","r","n","o"," ","1","3","]"," ","P","e","r","m","i","s","s","i","o","n"," ","d","e","n","i","e","d",":"," ","'">>, path, <<"'">>>>)

\* str(e) of what os.listdir raises for a path that is a regular file
NotADirectory(path) ==
    Concat(<<<<"[","E","r","r","n","o"," ","2","0","]"," ","N","o","t"," ","a"," ","d","i","r","e","c","t","o","r","y",":"," ","'">>, path, <<"'">>>>)

\* LibraryDeclarationFileParser().parse_fun_file(file_path) followed by
\* get_library(): the library, or the text of the exception
ParsedFunFile ==
    [kind \in FunFileKinds |->
       IF kind = "unreadable"
       THEN [raised |-> TRUE,
             error |-> PermissionDenied(LibraryPath \o <<"/","M","y","L","i","b",".","f","u","n">>),
             library |-> NewLibrary]
       ELSE Bind(ParseFunFile(FunFileText(kind)), LAMBDA r :
               [raised |-> r.raised,
                error |-> IF r.raised
                          THEN <<"N","o"," ","F","U","N","C","T","I","O","N"," ","f","o","u","n","d"," ","i","n"," ","t","h","e"," ","c","o","n","t","e","n","t">> ELSE <<>>,
                library |-> [NewLibrary EXCEPT
                               !.name = LibraryFolderName,
                               !.functions = r.functions,
                               !.function_blocks = r.function_blocks]])]

\* the .lby file of the folder: none, one that is no well-formed XML, one
\* with the AutomationStudio processing instruction whose Library element
\* carries every attribute, a file and a dependency, and one whose Library
\* element carries no attribute
LbyKinds == {"absent", "unparsable", "full", "bare"}

\* parse_lby_file with a parser that returns what it has for a file that
\* is no well-formed XML
ParseLbyFileLenient(kind) ==
    [raised |-> FALSE,
     metadata |->
        [name |-> LibraryFolderName,
         version |-> IF kind = "full" THEN <<"2",".","3",".","1">> ELSE <<"0",".","0",".","0">>,
         type |-> None, description |-> None, header_file_name |-> None,
         file_version |-> None, files |-> <<>>, dependencies |-> <<>>]]

\* LibraryFileParser.parse_lby_file: self.metadata, or raised for the
\* ValueError; the tree ET.parse builds holds no processing instruction,
\* so that file_version stays None
ParseLbyFile(kind) ==
    CASE kind = "full" ->
           [raised |-> FALSE,
            metadata |->
               [name |-> LibraryFolderName, version |-> <<"2",".","3",".","1">>,
                type |-> Some(<<"I","E","C">>), description |-> Some(<<"M","o","t","i","o","n">>),
                header_file_name |-> Some(<<"M","y","L","i","b",".","h">>),
                file_version |-> None,
                files |-> <<[path |-> <<"a",".","f","u","n">>, description |-> None]>>,
                dependencies |->
                   <<[object_name |-> Some(<<"s","t","a","n","d","a","r","d">>),
                      from_version |-> None, to_version |-> None]>>]]
      [] kind = "bare" ->
           [raised |-> FALSE,
            metadata |->
               [name |-> LibraryFolderName, version |-> <<"1",".","0",".","0">>,
                type |-> None, description |-> None,
                header_file_name |-> None, file_version |-> None,
                files |-> <<>>, dependencies |-> <<>>]]
      [] OTHER -> [raised |-> TRUE, metadata |-> <<>>]

\* LibraryFileParser.update_library_object
UpdateLibraryObject(lib, metadata) ==
    [lib EXCEPT
       !.name = metadata.name,
       !.version = metadata.version,
       !.type = metadata.type,
       !.description = metadata.description,
       !.header_file_name = metadata.header_file_name,
       !.file_version = metadata.file_version,
       !.files = [k \in 1..Len(metadata.files) |-> metadata.files[k].path],
       !.dependency_libraries = metadata.dependencies]

\* the .typ files of a folder, by kind: the structure Inner, the
\* enumeration Color, a file that cannot be opened, and a file with a
\* definition whose comment is not closed
TypFileKinds == {"inner", "color", "unreadable", "open_comment"}

TypFileText(kind) ==
    Concat(<<<<"T","Y","P","E","\n">>,
             CASE kind = "inner" -> InnerDefinition
               [] kind = "color" -> ColorDefinition
               [] kind = "open_comment" -> OpenCommentDefinition
               [] OTHER -> <<>>,
             <<"\n","E","N","D","_","T","Y","P","E","\n">>>>)

\* TypeFileParser().parse_typ_file(file_path) followed by get_structures()
\* and get_enumerations()
ParsedTypFile ==
    [kind \in TypFileKinds |->
       IF kind = "unreadable"
       THEN [raised |-> TRUE, hangs |-> FALSE, structures |-> <<>>,
             enumerations |-> <<>>]
       ELSE Bind(ParseTypFile(TypFileText(kind)), LAMBDA r :
               [raised |-> FALSE, hangs |-> r.hangs,
                structures |-> r.structures,
                enumerations |-> r.enumerations])]

\* VAR\s+CONSTANT\s+(.*?)\s+END_VAR compiled with re.DOTALL | re.IGNORECASE
VarConstantBlockPattern ==
    ILit(<<"V","A","R">>) \o <<Plus(SpaceChars)>> \o ILit(<<"C","O","N","S","T","A","N","T">>)
    \o <<Plus(SpaceChars), Group(1, <<LazyAny>>), Plus(SpaceChars)>>
    \o ILit(<<"E","N","D","_","V","A","R">>)

\* VarFileParser.parse_var_constant_blocks
ParseVarConstantBlocks(file_content) ==
    Bind(ReFindIter(VarConstantBlockPattern, 1, file_content), LAMBDA ms :
       [k \in 1..Len(ms) |-> GroupText(ms[k], file_content, 1)])

\* VarFileParser.parse_var_file on the content read from the file; the
\* ValueError of a block leaves parse_var_file
ParseVarFile(content) ==
    Bind(ParseVarConstantBlocks(content), LAMBDA var_constant_blocks :
    Bind([k \in 1..Len(var_constant_blocks) |->
            ParseVariableSection(var_constant_blocks[k], "VarConstant", FALSE)], LAMBDA sections :
       IF \E k \in 1..Len(sections) : sections[k].raised
       THEN [raised |-> TRUE, constants |-> <<>>]
       ELSE [raised |-> FALSE,
             constants |->
                Concat([k \in 1..Len(sections) |-> sections[k].variables])]))

\* the .var files of a folder, by kind: a file with the constant MAXX, a
\* file with two blocks (MINX, then LIMIT), and a file whose second
\* block declares an array with the dimension [5]
VarFileKinds == {"maxx", "two_blocks", "bad_dim"}

VarFileText(kind) ==
    CASE kind = "maxx" -> <<"V","A","R"," ","C","O","N","S","T","A","N","T","\n"," ","M","A","X","X"," ",":"," ","I","N","T"," ",":","="," ","5",";","\n","E","N","D","_","V","A","R","\n">>
      [] kind = "two_blocks" ->
           <<"V","A","R"," ","C","O","N","S","T","A","N","T","\n"," ","M","I","N","X"," ",":"," ","I","N","T"," ",":","="," ","0",";","\n","E","N","D","_","V","A","R","\n","v","a","r"," ","c","o","n","s","t","a","n","t","\n"," ","L","I","M","I","T"," ",":"," ","I","N","T"," ",":","="," ","9",";","\n","E","N","D","_","V","A","R","\n">>
      [] OTHER ->
           <<"V","A","R"," ","C","O","N","S","T","A","N","T","\n"," ","F","I","R","S","T"," ",":"," ","I","N","T"," ",":","="," ","1",";","\n","E","N","D","_","V","A","R","\n","V","A","R"," ","C","O","N","S","T","A","N","T","\n"," ","B","A","D"," ",":"," ","A","R","R","A","Y","[","5","]"," ","O","F"," ","I","N","T",";","\n","E","N","D","_","V","A","R","\n">>

\* VarFileParser().parse_var_file(file_path) followed by get_constants()
ParsedVarFile == [kind \in VarFileKinds |-> ParseVarFile(VarFileText(kind))]

\* a Python name that is None, or bound to a value
NoneValue == [some |-> FALSE]
SomeValue(v) == [some |-> TRUE, value |-> v]

\* one run: who calls (the CLI's main or the GUI's start), the arguments
\* --output and --keep-sources, what the library path names (nothing, a
\* regular file, a folder that cannot be listed, a folder), whether the
\* output folder (without --output: <library>/Help) exists, the files of
\* the folder in the order os.listdir and os.walk yield them, and the
\* state of the help compiler's files and of the build folder
Env(caller, output, keep_sources, folder, out_exists, fun_files, lby, typ_files, var_files, tools) ==
    [caller |-> caller, output |-> output, keep_sources |-> keep_sources,
     folder |-> folder, out_exists |-> out_exists, fun_files |-> fun_files,
     lby |-> lby, typ_files |-> typ_files, var_files |-> var_files,
     tools |-> tools]

Callers == {"cli", "gui"}
FolderStates == {"missing", "file", "unreadable", "dir"}
ToolStates == {"ok", "no_hhc", "read_only"}

\* runs that end at the arguments or at the library folder
FolderEnvs ==
    {Env(c, o, k, f, x, <<>>, "absent", <<>>, <<>>, "ok") :
        c \in Callers, o \in BOOLEAN, k \in BOOLEAN,
        f \in FolderStates \ {"dir"}, x \in BOOLEAN}
    \cup {Env(c, o, k, "dir", x, ff, "absent", <<"inner">>, <<"maxx">>, "ok") :
            c \in Callers, o \in BOOLEAN, k \in BOOLEAN, x \in BOOLEAN,
            ff \in {<<>>, <<"units", "units">>}}

\* runs over the .fun file and the .lby file
FunEnvs ==
    {Env(c, TRUE, FALSE, "dir", TRUE, <<ff>>, lby, <<"inner">>, <<"maxx">>,
         "ok") :
        c \in Callers, ff \in FunFileKinds, lby \in LbyKinds}

\* runs over the .typ files and the .var files
FileEnvs ==
    {Env(c, TRUE, FALSE, "dir", TRUE, <<"units">>, "absent", tf, vf, "ok") :
        c \in Callers, tf \in SeqsUpTo(TypFileKinds, MaxFiles),
        vf \in SeqsUpTo(VarFileKinds, MaxFiles)}

\* runs that reach the generation of the help file
ToolEnvs ==
    {Env(c, o, k, "dir", TRUE, <<"units">>, "full", <<"inner", "color">>,
         <<"maxx">>, t) :
        c \in Callers, o \in BOOLEAN, k \in BOOLEAN, t \in ToolStates}

Envs == FolderEnvs \cup FunEnvs \cup FileEnvs \cup ToolEnvs

\* the result dictionary process() starts from
NewResult ==
    [success |-> FALSE, chm_path |-> None, library |-> NoneValue,
     stats |-> <<>>, error |-> None]

\* the locals of the call before its first statement: library is not
\* bound, result is the dictionary process() starts from, shown is the
\* title of the message box start() has shown last, parsed_typ and
\* parsed_var are the positions of the files whose parser has returned,
\* html_files are the pages generate_library_chm has written, and steps
\* are the phases of the build that have finished, in order
NewBuild ==
    [library |-> NoneValue, structures |-> <<>>, enumerations |-> <<>>,
     constants |-> <<>>, result |-> NewResult, shown |-> "none",
     output_exists |-> FALSE, use_help_folder |-> FALSE,
     keep_sources |-> FALSE, parsed_typ |-> <<>>, parsed_var |-> <<>>,
     html_files |-> <<>>, steps |-> <<>>]

ProcInit ==
    /\ env \in Envs
    /\ pc = IF env.caller = "cli" THEN "main" ELSE "start"
    /\ build = NewBuild
    /\ exit_code = -1
    /\ LinkIdle /\ TypeIdle /\ TypIdle /\ FunIdle
    /\ SectIdle /\ UnitIdle /\ ExtIdle /\ EnumIdle

procIdle == <<linkVars, typeVars, typVars, funVars, sectVars, unitVars,
              extVars, enumVars>>

\* main() up to the call of process(): the arguments, the library path, the
\* output path (without --output the folder <library>/Help is created),
\* and the construction of the LibraryProcessor
Main ==
    /\ pc = "main"
    /\ IF env.keep_sources /\ ~env.output
       THEN exit_code' = 1 /\ pc' = "exited" /\ UNCHANGED build
       ELSE IF env.folder = "missing"
       THEN exit_code' = 2 /\ pc' = "exited" /\ UNCHANGED build
       ELSE IF env.output /\ ~env.out_exists
       THEN exit_code' = 3 /\ pc' = "exited" /\ UNCHANGED build
       ELSE IF ~env.output /\ env.folder = "file"
       THEN exit_code' = 3 /\ pc' = "exited" /\ UNCHANGED build
       ELSE /\ build' = [build EXCEPT
                           !.output_exists = TRUE,
                           !.use_help_folder = ~env.output,
                           !.keep_sources = env.output /\ env.keep_sources]
            /\ pc' = "process"
            /\ UNCHANGED exit_code
    /\ UNCHANGED <<env, procIdle>>

\* is_valid_library with a check that takes one .fun file for too many
IsValidLibraryNoneOnly(e) ==
    IF e.folder = "missing"
    THEN [valid |-> FALSE, error |-> <<"S","e","l","e","c","t","e","d"," ","f","o","l","d","e","r"," ","d","o","e","s"," ","n","o","t"," ","e","x","i","s","t">>]
    ELSE IF e.folder = "file"
    THEN [valid |-> FALSE, error |-> <<"S","e","l","e","c","t","e","d"," ","p","a","t","h"," ","i","s"," ","n","o","t"," ","a"," ","f","o","l","d","e","r">>]
    ELSE IF e.folder = "unreadable"
    THEN [valid |-> FALSE,
          error |-> <<"C","a","n","n","o","t"," ","a","c","c","e","s","s"," ","f","o","l","d","e","r",":"," ","P","e","r","m","i","s","s","i","o","n"," ","d","e","n","i","e","d">>]
    ELSE IF Len(e.fun_files) = 0
    THEN [valid |-> FALSE,
          error |-> <<"N","o","t"," ","a"," ","v","a","l","i","d"," ","B","&","R"," ","l","i","b","r","a","r","y",":"," ","N","o"," ",".","f","u","n"," ","d","e","c","l","a","r","a","t","i","o","n"," ","f","i","l","e"," ","f","o","u","n","d",".">>]
    ELSE IF Len(e.fun_files) >= 1
    THEN [valid |-> FALSE,
          error |-> <<"I","n","v","a","l","i","d"," ","l","i","b","r","a","r","y"," ","s","t","r","u","c","t","u","r","e",":"," ","M","u","l","t","i","p","l","e"," ",".","f","u","n"," ","f","i","l","e","s"," ","f","o","u","n","d",".">>]
    ELSE [valid |-> TRUE, error |-> <<>>]

\* is_valid_library(library_path) for a path that is not empty
IsValidLibrary(e) ==
    IF e.folder = "missing"
    THEN [valid |-> FALSE, error |-> <<"S","e","l","e","c","t","e","d"," ","f","o","l","d","e","r"," ","d","o","e","s"," ","n","o","t"," ","e","x","i","s","t">>]
    ELSE IF e.folder = "file"
    THEN [valid |-> FALSE, error |-> <<"S","e","l","e","c","t","e","d"," ","p","a","t","h"," ","i","s"," ","n","o","t"," ","a"," ","f","o","l","d","e","r">>]
    ELSE IF e.folder = "unreadable"
    THEN [valid |-> FALSE,
          error |-> <<"C","a","n","n","o","t"," ","a","c","c","e","s","s"," ","f","o","l","d","e","r",":"," ","P","e","r","m","i","s","s","i","o","n"," ","d","e","n","i","e","d">>]
    ELSE IF Len(e.fun_files) = 0
    THEN [valid |-> FALSE,
          error |-> <<"N","o","t"," ","a"," ","v","a","l","i","d"," ","B","&","R"," ","l","i","b","r","a","r","y",":"," ","N","o"," ",".","f","u","n"," ","d","e","c","l","a","r","a","t","i","o","n"," ","f","i","l","e"," ","f","o","u","n","d",".","\n","\n","A"," ","v","a","l","i","d"," ","B","&","R"," ","l","i","b","r","a","r","y"," ","m","u","s","t"," ","c","o","n","t","a","i","n",":","\n","-"," ","A","t"," ","l","e","a","s","t"," ","o","n","e"," ",".","f","u","n"," ","f","i","l","e"," ","(","f","u","n","c","t","i","o","n"," ","d","e","c","l","a","r","a","t","i","o","n","s",")","\n","-"," ","O","p","t","i","o","n","a","l"," ",".","t","y","p"," ","f","i","l","e","s"," ","(","t","y","p","e"," ","d","e","f","i","n","i","t","i","o","n","s",")","\n","-"," ","O","p","t","i","o","n","a","l"," ",".","v","a","r"," ","f","i","l","e","s"," ","(","v","a","r","i","a","b","l","e","/","c","o","n","s","t","a","n","t"," ","d","e","c","l","a","r","a","t","i","o","n","s",")","\n","-"," ","O","p","t","i","o","n","a","l"," ",".","l","b","y"," ","f","i","l","e"," ","(","l","i","b","r","a","r","y"," ","m","e","t","a","d","a","t","a",")">>]
    ELSE IF Len(e.fun_files) > 1
    THEN [valid |-> FALSE,
          error |-> <<"I","n","v","a","l","i","d"," ","l","i","b","r","a","r","y"," ","s","t","r","u","c","t","u","r","e",":"," ","M","u","l","t","i","p","l","e"," ",".","f","u","n"," ","f","i","l","e","s"," ","f","o","u","n","d",".","\n","\n","A"," ","B","&","R"," ","l","i","b","r","a","r","y"," ","c","a","n"," ","o","n","l","y"," ","c","o","n","t","a","i","n"," ","o","n","e"," ",".","f","u","n"," ","d","e","c","l","a","r","a","t","i","o","n"," ","f","i","l","e",".">>]
    ELSE [valid |-> TRUE, error |-> <<>>]

\* LibraryProcessor.validate_inputs
ValidateInputs(e, output_exists) ==
    IF e.folder = "missing"
    THEN [valid |-> FALSE,
          error |-> <<"L","i","b","r","a","r","y"," ","f","o","l","d","e","r"," ","n","o","t"," ","f","o","u","n","d",":"," ">> \o LibraryPath]
    ELSE IF ~output_exists
    THEN [valid |-> FALSE,
          error |-> <<"O","u","t","p","u","t"," ","f","o","l","d","e","r"," ","n","o","t"," ","f","o","u","n","d",":"," ">> \o OutputPath]
    ELSE IsValidLibrary(e)

\* SelectLibrary(library_path) for a path that is not empty:
\* validate_library_path and get_library_declaration_path; raised is the
\* class the except clauses of the caller tell apart
SelectLibrary(e) ==
    IF e.folder = "missing"
    THEN [raised |-> "FileNotFoundError", error |-> <<>>]
    ELSE IF e.folder = "file"
    THEN [raised |-> "Exception", error |-> NotADirectory(LibraryPath)]
    ELSE IF e.folder = "unreadable"
    THEN [raised |-> "Exception", error |-> PermissionDenied(LibraryPath)]
    ELSE IF Len(e.fun_files) > 1
    THEN [raised |-> "Exception",
          error |-> <<"L","i","b","r","a","r","y"," ","c","a","n"," ","o","n","l","y"," ","h","a","v","e"," ","1"," ",".","f","u","n"," ","f","i","l","e"," ","f","o","r"," ","d","e","c","l","a","r","a","t","i","o","n">>]
    ELSE IF Len(e.fun_files) = 0
    THEN [raised |-> "Exception",
          error |-> <<"N","o"," ",".","f","u","n"," ","f","i","l","e"," ","f","o","u","n","d"," ","i","n"," ","l","i","b","r","a","r","y"," ","d","i","r","e","c","t","o","r","y">>]
    ELSE [raised |-> "none", error |-> <<>>]

\* a result that carries the error and the library parsed so far
ReturnErrorWithLibrary(b, error) ==
    [b EXCEPT !.result.error = Some(error), !.result.library = b.library]

\* process() returns its result with the error set
ReturnError(b, error) == [b EXCEPT !.result.error = Some(error)]

\* process() from its first statement to the collections: validate_inputs,
\* SelectLibrary, the paths of the declaration files, and the three lists
Validate ==
    /\ pc = "process"
    /\ \E v \in {ValidateInputs(env, build.output_exists)},
          s \in {SelectLibrary(env)} :
          IF ~v.valid
          THEN build' = ReturnError(build, v.error) /\ pc' = "returned"
          ELSE IF s.raised = "FileNotFoundError"
          THEN /\ build' = ReturnError(build, <<"L","i","b","r","a","r","y"," ","f","o","l","d","e","r"," ","n","o","t"," ","f","o","u","n","d"," ","o","r"," ","n","o"," ","l","o","n","g","e","r"," ","a","c","c","e","s","s","i","b","l","e">>)
               /\ pc' = "returned"
          ELSE IF s.raised = "Exception"
          THEN /\ build' = ReturnError(build, <<"E","r","r","o","r"," ","a","c","c","e","s","s","i","n","g"," ","l","i","b","r","a","r","y"," ","f","o","l","d","e","r",":"," ">> \o s.error)
               /\ pc' = "returned"
          ELSE /\ build' = [build EXCEPT !.steps = Append(@, "select")]
               /\ pc' = "fun"
    /\ UNCHANGED <<env, exit_code, procIdle>>

\* start() from its first statement to the collections: SelectLibrary, the
\* paths of the declaration files, and the three lists
Select ==
    /\ pc = "start"
    /\ \E s \in {SelectLibrary(env)} :
          IF s.raised # "none"
          THEN build' = [build EXCEPT !.shown = "Error"] /\ pc' = "returned"
          ELSE /\ build' = [build EXCEPT !.steps = Append(@, "select")]
               /\ pc' = "fun"
    /\ UNCHANGED <<env, exit_code, procIdle>>

\* the .fun step of process() and of start(): parse_fun_file, then library =
\* libFileParser.get_library(); an exception ends the call
ParseFun ==
    /\ pc = "fun"
    /\ \E r \in {ParsedFunFile[env.fun_files[1]]} :
          IF r.raised
          THEN /\ build' =
                    IF env.caller = "cli"
                    THEN ReturnError(build, <<"E","r","r","o","r"," ","p","a","r","s","i","n","g"," ","l","i","b","r","a","r","y"," ","d","e","c","l","a","r","a","t","i","o","n"," ","f","i","l","e"," ","(",".","f","u","n",")",":"," ">> \o r.error)
                    ELSE [build EXCEPT !.shown = "Parsing Error"]
               /\ pc' = "returned"
          ELSE /\ build' = [build EXCEPT
                              !.library = SomeValue(r.library),
                              !.steps = Append(@, "fun")]
               /\ pc' = "lby"
    /\ UNCHANGED <<env, exit_code, procIdle>>

\* the .lby step of process() and of start(): without a .lby file nothing,
\* otherwise parse_lby_file and update_library_object; an exception is
\* reported and the call goes on
ParseLby ==
    /\ pc = "lby"
    /\ \E r \in {ParseLbyFile(env.lby)} :
          build' =
             [build EXCEPT
                !.library =
                   IF env.lby = "absent" \/ r.raised THEN @
                   ELSE SomeValue(UpdateLibraryObject(@.value, r.metadata)),
                !.shown = IF env.lby # "absent" /\ r.raised
                             /\ env.caller = "gui"
                          THEN "Warning" ELSE @,
                !.steps = Append(@, "lby")]
    /\ pc' = "typ"
    /\ UNCHANGED <<env, exit_code, procIdle>>

\* a list that takes the items for its content
ExtendReplacing(list, items) == items

\* list.extend
Extend(list, items) == list \o items

\* one iteration of the loop over type_file_paths: parse_typ_file, then
\* both lists are extended; an exception leaves the loop for the except
\* clause, and a call that does not return keeps the build from going on
TypFile ==
    /\ pc = "typ"
    /\ Len(build.parsed_typ) < Len(env.typ_files)
    /\ \E k \in {Len(build.parsed_typ) + 1} :
       \E r \in {ParsedTypFile[env.typ_files[k]]} :
          IF r.hangs
          THEN pc' = "hangs" /\ UNCHANGED build
          ELSE IF r.raised
          THEN /\ build' = [build EXCEPT
                              !.shown = IF env.caller = "gui"
                                        THEN "Parsing Error" ELSE @]
               /\ pc' = "typ_left"
          ELSE /\ build' = [build EXCEPT
                              !.structures = Extend(@, r.structures),
                              !.enumerations = Extend(@, r.enumerations),
                              !.parsed_typ = Append(@, k)]
               /\ pc' = "typ"
    /\ UNCHANGED <<env, exit_code, procIdle>>

\* after the loop over type_file_paths or its except clause:
\* library.structures = structures and library.enumerations = enumerations
AssignTypes ==
    /\ \/ pc = "typ" /\ Len(build.parsed_typ) = Len(env.typ_files)
       \/ pc = "typ_left"
    /\ build' = [build EXCEPT
                   !.library.value.structures = build.structures,
                   !.library.value.enumerations = build.enumerations,
                   !.steps = Append(@, "typ")]
    /\ pc' = "var"
    /\ UNCHANGED <<env, exit_code, procIdle>>

\* one iteration of the loop over var_file_paths: parse_var_file, then the
\* list is extended; an exception leaves the loop for the except clause
VarFile ==
    /\ pc = "var"
    /\ Len(build.parsed_var) < Len(env.var_files)
    /\ \E k \in {Len(build.parsed_var) + 1} :
       \E r \in {ParsedVarFile[env.var_files[k]]} :
          IF r.raised
          THEN /\ build' = [build EXCEPT
                              !.shown = IF env.caller = "gui"
                                        THEN "Parsing Error" ELSE @]
               /\ pc' = "var_left"
          ELSE /\ build' = [build EXCEPT
                              !.constants = Extend(@, r.constants),
                              !.parsed_var = Append(@, k)]
               /\ pc' = "var"
    /\ UNCHANGED <<env, exit_code, procIdle>>

\* the library keeps the list it had
ConstantsUnassigned(lib, list) == lib

\* library.constants = constants
ConstantsAssigned(lib, list) == [lib EXCEPT !.constants = list]

\* after the loop over var_file_paths or its except clause:
\* library.constants = constants
AssignConstants ==
    /\ \/ pc = "var" /\ Len(build.parsed_var) = Len(env.var_files)
       \/ pc = "var_left"
    /\ build' = [build EXCEPT
                   !.library.value = ConstantsAssigned(@, build.constants),
                   !.steps = Append(@, "var")]
    /\ pc' = "chm"
    /\ UNCHANGED <<env, exit_code, procIdle>>

\* the parameters of LibraryDeclarationToChm.__init__ besides self
ConstructorParameters == {"library"}

\* the keyword arguments of the call LibraryDeclarationToChm(...), in the
\* order of the call
ConstructorKeywords(caller) ==
    IF caller = "cli"
    THEN <<"library", "keep_sources", "use_help_folder">>
    ELSE <<"library">>

\* str(e) of the TypeError of a call with a keyword the function lacks
UnexpectedKeyword(keyword) ==
    Concat(<<<<"L","i","b","r","a","r","y","D","e","c","l","a","r","a","t","i","o","n","T","o","C","h","m",".","_","_","i","n","i","t","_","_","(",")"," ","g","o","t"," ","a","n"," ","u","n","e","x","p","e","c","t","e","d"," ","k","e","y","w","o","r","d"," ","a","r","g","u","m","e","n","t"," ","'">>,
             CASE keyword = "keep_sources" -> <<"k","e","e","p","_","s","o","u","r","c","e","s">>
               [] keyword = "use_help_folder" -> <<"u","s","e","_","h","e","l","p","_","f","o","l","d","e","r">>
               [] OTHER -> <<"l","i","b","r","a","r","y">>,
             <<"'">>>>)

\* the construction of LibraryDeclarationToChm and generate_library_chm up
\* to its first page: the build folder, style.css and hhc.exe; raised is
\* the class the except clauses of the caller tell apart
StartGeneration(e) ==
    Bind(SelectSeq(ConstructorKeywords(e.caller),
                   LAMBDA kw : kw \notin ConstructorParameters), LAMBDA unexpected :
       IF unexpected # <<>>
       THEN [raised |-> "Exception", error |-> UnexpectedKeyword(unexpected[1])]
       ELSE IF e.tools = "read_only"
       THEN [raised |-> "PermissionError",
             error |-> PermissionDenied(OutputPath \o <<"/","M","y","L","i","b">>)]
       ELSE IF e.tools = "no_hhc"
       THEN [raised |-> "Exception",
             error |-> <<"h","h","c",".","e","x","e"," ","n","o","t"," ","f","o","u","n","d"," ","a","t"," ","/","a","p","p","/","b","i","n","/","h","h","c",".","e","x","e">>]
       ELSE [raised |-> "none", error |-> <<>>])

\* the generation step of process() and of start() up to the first page of
\* generate_library_chm
Generate ==
    /\ pc = "chm"
    /\ \E g \in {StartGeneration(env)} :
          IF g.raised = "PermissionError"
          THEN /\ build' =
                    IF env.caller = "cli"
                    THEN ReturnError(build, <<"P","e","r","m","i","s","s","i","o","n"," ","d","e","n","i","e","d"," ","w","h","e","n"," ","w","r","i","t","i","n","g"," ","t","o"," ","b","u","i","l","d"," ","f","o","l","d","e","r",":"," ">> \o OutputPath)
                    ELSE [build EXCEPT !.shown = "Build Error"]
               /\ pc' = "returned"
          ELSE IF g.raised = "Exception"
          THEN /\ build' =
                    IF env.caller = "cli"
                    THEN ReturnError(build, <<"E","r","r","o","r"," ","g","e","n","e","r","a","t","i","n","g"," ","C","H","M"," ","h","e","l","p"," ","f","i","l","e",":"," ">> \o g.error)
                    ELSE [build EXCEPT !.shown = "Build Error"]
               /\ pc' = "returned"
          ELSE /\ build' = [build EXCEPT !.steps = Append(@, "generate")]
               /\ pc' = "rendering"
    /\ UNCHANGED <<env, exit_code, procIdle>>

\* the names of a list of declarations
DeclaredNames(list) == [k \in 1..Len(list) |-> list[k].name]

\* generate_library_chm: html_files, the stems of the pages in the order
\* they are written
HtmlFiles(lib) ==
    Concat(<<<<<<"i","n","d","e","x">>>>,
             IF lib.functions # <<>> \/ lib.function_blocks # <<>>
             THEN <<<<"F","B","K","s">>>> ELSE <<>>,
             DeclaredNames(lib.functions),
             DeclaredNames(lib.function_blocks),
             <<<<"D","a","t","a","T","y","p","e","s">>>>,
             IF lib.structures # <<>>
             THEN <<<<"S","t","r","u","c","t","u","r","e","s">>>> \o DeclaredNames(lib.structures)
             ELSE <<>>,
             IF lib.enumerations # <<>>
             THEN <<<<"E","n","u","m","e","r","a","t","i","o","n","s">>>> \o DeclaredNames(lib.enumerations)
             ELSE <<>>,
             IF lib.constants # <<>> THEN <<<<"C","o","n","s","t","a","n","t","s">>>> ELSE <<>>>>)

\* stats of the success result
Stats(lib) ==
    [functions |-> Len(lib.functions),
     function_blocks |-> Len(lib.function_blocks),
     structures |-> Len(lib.structures),
     enumerations |-> Len(lib.enumerations),
     constants |-> Len(lib.constants)]

\* generate_library_chm from its first page to the compiled help file, and
\* what the caller does with it: process() builds its success result,
\* start() shows the summary
Render ==
    /\ pc = "rendering"
    /\ build' =
          [build EXCEPT
             !.html_files = HtmlFiles(build.library.value),
             !.steps = Append(@, "render"),
             !.shown = IF env.caller = "gui" THEN "Information" ELSE @,
             !.result =
                IF env.caller = "cli"
                THEN [success |-> TRUE,
                      chm_path |-> Some(OutputPath \o <<"/","M","y","L","i","b","/","c","h","m","/","L","i","b","M","y","L","i","b",".","c","h","m">>),
                      library |-> build.library,
                      stats |-> Stats(build.library.value),
                      error |-> None]
                ELSE @]
    /\ pc' = "returned"
    /\ UNCHANGED <<env, exit_code, procIdle>>

\* main() after process(): the exit code of a result
ExitCode(res) ==
    IF ~res.success
    THEN Bind(ToLower(res.error.text), LAMBDA error_lower :
            IF Contains(error_lower, <<"l","i","b","r","a","r","y"," ","f","o","l","d","e","r">>)
               \/ Contains(error_lower, <<"n","o","t"," ","f","o","u","n","d">>)
            THEN 2
            ELSE IF Contains(error_lower, <<"o","u","t","p","u","t"," ","f","o","l","d","e","r">>)
                    \/ Contains(error_lower, <<"p","e","r","m","i","s","s","i","o","n">>)
            THEN 3
            ELSE 4)
    ELSE 0

\* main() from the return of process() to its own return
Exit ==
    /\ pc = "returned"
    /\ env.caller = "cli"
    /\ exit_code' = ExitCode(build.result)
    /\ pc' = "exited"
    /\ UNCHANGED <<env, build, procIdle>>

ProcNext ==
    \/ Main \/ Validate \/ Select \/ ParseFun \/ ParseLby
    \/ TypFile \/ AssignTypes \/ VarFile \/ AssignConstants
    \/ Generate \/ Render \/ Exit

ProcSpec == ProcInit /\ [][ProcNext]_vars

----------------------------------------------------------------------------
(* Properties of process(), start() and main() *)

\* the phase has finished
Done(step) == \E k \in 1..Len(build.steps) : build.steps[k] = step

\* C25: with no .fun file in the library folder, or more than one, process()
\* returns a result with success = False and an error message, no
\* declaration file is parsed and no help output is generated; with exactly
\* one .fun file the check lets the build through to the .fun step
C25_OneFunFileOrAbort ==
    /\ env.folder = "dir" /\ Len(env.fun_files) # 1 =>
          /\ build.steps = <<>> /\ build.library = NoneValue
          /\ build.parsed_typ = <<>> /\ build.parsed_var = <<>>
          /\ build.html_files = <<>>
          /\ pc \notin {"fun", "lby", "typ", "var", "chm", "rendering"}
          /\ env.caller = "cli" /\ pc = "returned" =>
                /\ ~build.result.success
                /\ build.result.error.some
                /\ build.result.error.text # <<>>
    /\ env.folder = "dir" /\ Len(env.fun_files) = 1
       /\ env.caller = "cli" /\ pc \in {"returned", "exited"}
       /\ build.output_exists =>
          Done("select")

C25_Witness ==
    /\ env.caller = "cli" /\ pc = "returned"
    /\ env.folder = "dir" /\ Len(env.fun_files) = 2
    /\ build.result.error.some

\* the metadata fields of a library and its two function lists
MetadataOf(lib) ==
    <<lib.name, lib.version, lib.type, lib.description, lib.header_file_name,
      lib.file_version, lib.files, lib.dependency_libraries>>

\* C24: when the .lby file cannot be parsed the call goes on with the .typ
\* files, and the Library is as the .fun step left it: name = the folder
\* name, version = "1.0.0", every other metadata field at its default, and
\* the function and function-block lists unchanged
C24_UnparsableLbyKeepsDefaults ==
    env.lby = "unparsable" /\ Done("lby") =>
       /\ MetadataOf(build.library.value) =
             <<LibraryFolderName, <<"1",".","0",".","0">>, None, None, None, None, <<>>, <<>>>>
       /\ build.library.value.functions =
             ParsedFunFile[env.fun_files[1]].library.functions
       /\ build.library.value.function_blocks =
             ParsedFunFile[env.fun_files[1]].library.function_blocks
       /\ build.steps[Len(build.steps)] = "lby" =>
             pc = "typ" /\ build.result = NewResult

C24_Witness ==
    /\ env.lby = "unparsable" /\ pc = "typ" /\ Done("lby")
    /\ build.library.value.functions # <<>>

\* list is the beginning of longer
GrowsTo(list, longer) ==
    Len(list) <= Len(longer) /\ SubSeq(longer, 1, Len(list)) = list

\* the lists parsed from the files at the given positions, in that order
StructuresOf(positions) ==
    Concat([k \in 1..Len(positions) |->
              ParsedTypFile[env.typ_files[positions[k]]].structures])
EnumerationsOf(positions) ==
    Concat([k \in 1..Len(positions) |->
              ParsedTypFile[env.typ_files[positions[k]]].enumerations])
ConstantsOf(positions) ==
    Concat([k \in 1..Len(positions) |->
              ParsedVarFile[env.var_files[positions[k]]].constants])

\* the collected lists are the concatenations, in file order, of the lists
\* parsed from the files processed so far, and the library holds them once
\* they are assigned
Concatenated ==
    /\ build.parsed_typ = [k \in 1..Len(build.parsed_typ) |-> k]
    /\ build.parsed_var = [k \in 1..Len(build.parsed_var) |-> k]
    /\ build.structures = StructuresOf(build.parsed_typ)
    /\ build.enumerations = EnumerationsOf(build.parsed_typ)
    /\ build.constants = ConstantsOf(build.parsed_var)
    /\ Done("typ") =>
          /\ build.library.value.structures = build.structures
          /\ build.library.value.enumerations = build.enumerations
    /\ Done("var") => build.library.value.constants = build.constants

\* a step of the build keeps what the lists hold: each list of the call and
\* of the library grows at its end or stays
Additive ==
    /\ GrowsTo(build.structures, build'.structures)
    /\ GrowsTo(build.enumerations, build'.enumerations)
    /\ GrowsTo(build.constants, build'.constants)
    /\ build.library.some =>
          /\ build'.library.some
          /\ build'.library.value.functions = build.library.value.functions
          /\ build'.library.value.function_blocks =
                build.library.value.function_blocks
          /\ GrowsTo(build.library.value.structures,
                     build'.library.value.structures)
          /\ GrowsTo(build.library.value.enumerations,
                     build'.library.value.enumerations)
          /\ GrowsTo(build.library.value.constants,
                     build'.library.value.constants)

\* C23: across the files of one library the declaration lists only grow:
\* after type files and variable files have been processed the lists of
\* structures, enumerations and constants are the concatenations, in file
\* order, of the lists parsed from each of them, and no step of the build
\* replaces or drops a declaration that was collected; only metadata fields
\* are overwritten
C23_ListsOnlyGrow == []Concatenated /\ [][Additive]_vars

C23_Witness ==
    /\ Done("var")
    /\ Len(build.parsed_typ) = 2 /\ Len(build.parsed_var) = 2
    /\ Len(build.library.value.structures) = 1
    /\ Len(build.library.value.enumerations) = 1
    /\ Len(build.library.value.constants) = 3
    /\ build.library.value.constants[1].name = MAXX

\* the file at a position parses when it is parsed alone
TypFileParses(k) ==
    ~ParsedTypFile[env.typ_files[k]].raised
    /\ ~ParsedTypFile[env.typ_files[k]].hangs
VarFileParses(k) == ~ParsedVarFile[env.var_files[k]].raised

\* the items are in the list
AllIn(items, list) ==
    \A i \in 1..Len(items) : \E j \in 1..Len(list) : list[j] = items[i]

\* C26: a .typ file or .var file whose parsing fails is alone in being left
\* out: the files after it are still parsed, and the declarations of every
\* other file, before and after it, are in the final Library
C26_FailureConfinedToFile ==
    Done("var") =>
       /\ \A k \in 1..Len(env.typ_files) :
             TypFileParses(k) =>
                /\ \E j \in 1..Len(build.parsed_typ) : build.parsed_typ[j] = k
                /\ AllIn(ParsedTypFile[env.typ_files[k]].structures,
                         build.library.value.structures)
                /\ AllIn(ParsedTypFile[env.typ_files[k]].enumerations,
                         build.library.value.enumerations)
       /\ \A k \in 1..Len(env.var_files) :
             VarFileParses(k) =>
                /\ \E j \in 1..Len(build.parsed_var) : build.parsed_var[j] = k
                /\ AllIn(ParsedVarFile[env.var_files[k]].constants,
                         build.library.value.constants)

\* the phases of the build in the order of the statements of process() and
\* of start()
BuildSteps == <<"select", "fun", "lby", "typ", "var">>

\* generate_library_chm is about to be called, is running or has returned
Resolving == pc \in {"chm", "rendering"} \/ Done("generate")

\* when resolution starts the four phases have finished, in order, and the
\* three lists are assigned to the library
Assembled ==
    Resolving =>
       /\ GrowsTo(BuildSteps, build.steps)
       /\ build.library.some
       /\ build.library.value.structures = build.structures
       /\ build.library.value.enumerations = build.enumerations
       /\ build.library.value.constants = build.constants
       /\ build.html_files # <<>> =>
             build.html_files = HtmlFiles(build.library.value)

\* C27: build-then-resolve: rendering and reference resolution begin only
\* after the .fun, .lby, .typ and .var phases have all finished and the
\* lists of structures, enumerations and constants are assigned to the
\* library, and no field of the Library changes once resolution has started
C27_BuildThenResolve ==
    /\ [](Assembled /\ (build.html_files # <<>> => Resolving))
    /\ [][Resolving => build'.library = build.library]_vars

C27_Witness ==
    /\ Done("render") /\ env.caller = "gui"
    /\ build.library.value.constants # <<>>
    /\ build.library.value.structures # <<>>
    /\ Len(build.html_files) > 6

\* C30: every result process() returns has one of two shapes: success with
\* no error, the path of the help file, the library and the lengths of its
\* five lists as stats; or failure with a non-empty error message, no path,
\* no library and empty stats
C30_ResultShape ==
    env.caller = "cli" /\ pc = "returned" =>
       /\ build.result.success =>
             /\ build.result.error = None
             /\ build.result.chm_path.some
             /\ build.result.library.some
             /\ build.result.stats = Stats(build.result.library.value)
       /\ ~build.result.success =>
             /\ build.result.error.some
             /\ build.result.error.text # <<>>
             /\ build.result.chm_path = None
             /\ build.result.library = NoneValue
             /\ DOMAIN build.result.stats = {}

C30_Witness ==
    /\ env.caller = "cli" /\ pc = "returned"
    /\ Done("var") /\ build.library.some
    /\ build.result.error.some

\* C28: the exit code of a run of the CLI follows the table of its help
\* text: 1 for --keep-sources without --output, 2 when the library path is
\* no folder that can be read, 3 when the output folder given does not
\* exist, 4 when the generation step fails, and 0 exactly when the help file
\* was generated
C28_ExitCodeTable ==
    pc = "exited" =>
       /\ exit_code = 0 <=> Done("render")
       /\ env.keep_sources /\ ~env.output => exit_code = 1
       /\ ~(env.keep_sources /\ ~env.output) =>
             /\ env.folder = "missing" => exit_code = 2
             /\ env.folder \in {"file", "unreadable"}
                /\ env.output /\ env.out_exists => exit_code = 2
             /\ env.folder = "dir" /\ env.output /\ ~env.out_exists =>
                   exit_code = 3
             /\ Done("var") /\ ~Done("render") => exit_code = 4

============================================================================
